---- MODULE Spec2Model ----
(***************************************************************************)
(* Model of the task execution orchestrator of ralphy.sh: the parallel     *)
(* batch scheduler (run_parallel_tasks / run_parallel_agent), the worktree *)
(* manager (create_agent_worktree / cleanup_agent_worktree), the task      *)
(* sources (markdown, yaml, github) and the sequential loop (main /        *)
(* run_single_task).                                                       *)
(*                                                                         *)
(* The script runs under `set -euo pipefail` (line 9).  Whether a failing  *)
(* compound command such as ((batch_num++)) (value 0, status 1) ends the   *)
(* shell depends on the bash that /bin/bash resolves to: bash >= 4.1 exits *)
(* (COMPAT item 46, NEWS "[[ and (( are now subject to set -e"), bash 3.2  *)
(* does not.  errexitCompound is that choice, fixed for a run.             *)
(*                                                                         *)
(* create_agent_worktree hands its result back on stdout (line 1134) and   *)
(* only silences stderr of git worktree add (line 1131).  What git writes  *)
(* to stdout is the environment's choice: git 2.39 prints "HEAD is now at  *)
(* ..." there, which then precedes "dir|branch" in worktree_info.          *)
(* gitAddPrints is that choice, fixed for a run.                           *)
(*                                                                         *)
(* Spec is a run without --dry-run and without a signal.  SpecDryRun is a  *)
(* run with or without it, SpecInterrupt a run that a signal (INT, TERM, HUP)  *)
(* may end at any point, SpecCreate calls create_agent_worktree twice for  *)
(* one slot, FairSpec is Spec with the steps of the shell and of the       *)
(* agents taken as long as one is possible, SpecDelay a run whose          *)
(* --retry-delay may be a word that sleep rejects.  SpecParse hands one    *)
(* raw output to the output parsers and step detectors of ralphy.sh        *)
(* (parse_ai_result, check_for_errors, monitor_progress) and of            *)
(* cli/src/engines/base.ts (parseStreamJsonResult, checkForErrors,         *)
(* detectStepFromOutput).                                                  *)
(*                                                                         *)
(* SpecTotals is the bookkeeping after one batch (tokens, cost, branches), *)
(* SpecSlug slugify on one title and on its own output, SpecSources        *)
(* markComplete on a task source (MarkdownFolderTaskSource of              *)
(* cli/src/tasks/markdown-folder.ts, mark_task_complete of ralphy.sh),     *)
(* SpecPoll a parallel run with fair scheduling and any --retry-delay,     *)
(* SpecStream the read loop of execCommandStreaming (base.ts) on one       *)
(* child, SpecBranch create_task_branch for one task after the other.      *)
(***************************************************************************)
EXTENDS Integers, Sequences, FiniteSets, TLC

\* ---------------------------------------------------------------- bounds
MaxTasks == 3
MaxParallelBound == 2
MaxRetriesBound == 2
MaxIterationsBound == 2
MaxSeqIter == 3
MaxLines == 2

\* ------------------------------------------------------- program constants
SlugCap == 50

\* ------------------------------------------------------------ characters
Lower == {"a", "b"}
Digit == {"0", "1", "2", "3", "4", "5", "6", "7", "8", "9"}

\* task titles as they stand in the task source, one character per element
Titles == { <<"A">>, <<"A", "!">> }

Sources == {"markdown", "yaml", "github"}

\* raw agent output of one invocation: empty, containing an error record,
\* or a result record
Kinds == {"empty", "error", "ok"}

VARIABLES
  errexitCompound,  \* bash applies errexit to (( )) and ( ) commands
  gitAddPrints,     \* git worktree add writes a line to stdout on success
  PARALLEL, MAX_PARALLEL, MAX_RETRIES, MAX_ITERATIONS, PRD_SOURCE, DRY_RUN,
  stale,            \* agent numbers whose branch an earlier run left checked
                    \* out in a worktree of its own (never released)
  prd,              \* the task source: sequence of [title, completed]
  tasks,            \* run_parallel_tasks: local tasks array
  pc,               \* position of the main shell
  exit_code,
  iteration,
  batch_start, batch_num,
  idx,              \* loop index i (launch) / j (results)
  slot,             \* agent number -> AgentRun (status file, process, ...)
  worktrees,        \* agent numbers whose directory is a registered worktree
  branches,         \* branch names present in the repository
  offBase,          \* branches an earlier run left with commits of their own
  tmpfiles,         \* agent numbers whose status/output/log files exist
  WORKTREE_BASE,    \* "" (unset), "dir" (mktemp -d made it) or "removed"
  completed_branches,
  batches,          \* history: the batches launched, in launch order
  marks,            \* history: agent numbers whose task the scheduler marked
  flips,            \* history: per task line, number of unset -> set changes
  current_task,     \* run_single_task: local current_task
  retry_count,
  tmpfile,          \* global tmpfile: "" or "file" (mktemp made it, not removed)
  attempts,         \* history: raw outputs of the present sequential task run
  result_code,      \* main: what run_single_task returned
  RETRY_DELAY,      \* --retry-delay as given: "number" or "text" (line 219
                    \* takes any word)
  USE_OPENCODE,
  raw,              \* output parser: the raw output, a sequence of lines
  op,               \* output parser: the function applied to raw
  seen,             \* output parser: lines of raw the step detector has seen
  res,              \* what parseStreamJsonResult / parse_ai_result gave
  err,              \* what checkForErrors / check_for_errors gave
  detected,         \* what detectStepFromOutput returned for line k
  current_step,     \* monitor_progress: the step on display
  produced,         \* results: per slot of the batch, what its agent arrived at
  status_files,     \* results: per slot, the content of its status file
  output_files,     \* results: per slot, the fields of its output file
  results_j,        \* results: slots the results loop has been through
  total_input_tokens, total_output_tokens,
  total_actual_cost,\* in units of the sixth decimal (bc scale=6)
  totals_before,    \* history: the three totals when the batch began
  title,            \* slugify: the text handed to it
  slug,             \* slugify: what it printed for title
  reslug,           \* slugify: what it printed for slug
  folder,           \* markdown folder: file name -> lines of the file
  markdownFiles,    \* markdown folder: the files the constructor found
  last_id,          \* task sources: the id / task of the last markComplete
  marked_twice,     \* task sources: the last two calls had the same id
  stdout,           \* streaming: every byte the child writes
  unread,           \* streaming: bytes not read yet
  decoder,          \* streaming: bytes TextDecoder holds back (stream: true)
  buffer,           \* streaming: local buffer
  delivered,        \* streaming: the lines handed to onLine, in order
  eof,              \* streaming: reader.read() said done
  midline,          \* history: a read ended inside a line
  stash_list,       \* create_task_branch: the stash stack, top first
  tree,             \* create_task_branch: what differs from HEAD
  stash_before,     \* history: the stash stack when the call began
  pushed,           \* history: git stash push of the call saved an entry
  popped,           \* history: "" or the entry git stash pop applied
  task_branches     \* create_task_branch: the global array task_branches

envvars == <<errexitCompound, gitAddPrints, PARALLEL, MAX_PARALLEL, MAX_RETRIES,
             MAX_ITERATIONS, PRD_SOURCE, DRY_RUN, stale, RETRY_DELAY>>
parsevars == <<USE_OPENCODE, raw, op, seen, res, err, detected, current_step>>
totalsvars == <<produced, status_files, output_files, results_j, total_input_tokens,
                total_output_tokens, total_actual_cost, totals_before>>
slugvars == <<title, slug, reslug>>
foldervars == <<folder, markdownFiles, last_id, marked_twice>>
streamvars == <<stdout, unread, decoder, buffer, delivered, eof, midline>>
branchvars == <<stash_list, tree, stash_before, pushed, popped, task_branches>>
libvars == <<totalsvars, slugvars, foldervars, streamvars, branchvars>>
\* what no step of the orchestrator changes
cfgvars == <<envvars, parsevars, libvars>>
seqvars == <<current_task, retry_count, tmpfile, attempts, result_code>>
runvars == <<seqvars, prd, tasks, pc, exit_code, iteration, batch_start, batch_num,
             idx, slot, worktrees, branches, offBase, tmpfiles, WORKTREE_BASE,
             completed_branches,
             batches, marks, flips>>
vars == <<cfgvars, runvars>>

\* ------------------------------------------------------------ pure helpers
Min(a, b) == IF a < b THEN a ELSE b

IsPrefix(p, t) == Len(p) <= Len(t) /\ SubSeq(t, 1, Len(p)) = p

DigitChar(d) == <<"0", "1", "2", "3", "4", "5", "6", "7", "8", "9">>[d + 1]

RECURSIVE ToDigits(_)
ToDigits(n) == IF n < 10 THEN <<DigitChar(n)>>
               ELSE ToDigits(n \div 10) \o <<DigitChar(n % 10)>>

\* tr '[:upper:]' '[:lower:]'
ToLower(c) == IF c = "A" THEN "a" ELSE IF c = "B" THEN "b" ELSE c

IsAlnum(c) == c \in Lower \/ c \in Digit

\* sed -E 's/[^a-z0-9]+/-/g'
RECURSIVE Collapse(_)
Collapse(s) ==
  IF s = <<>> THEN <<>>
  ELSE IF IsAlnum(Head(s)) THEN <<Head(s)>> \o Collapse(Tail(s))
  ELSE IF Len(s) > 1 /\ ~IsAlnum(s[2]) THEN Collapse(Tail(s))
  ELSE <<"-">> \o Collapse(Tail(s))

\* sed -E 's/^-|-$//g'
TrimDash(s) ==
  LET a == IF s # <<>> /\ Head(s) = "-" THEN Tail(s) ELSE s
  IN  IF a # <<>> /\ a[Len(a)] = "-" THEN SubSeq(a, 1, Len(a) - 1) ELSE a

slugify(t) ==
  LET s == TrimDash(Collapse([i \in 1..Len(t) |-> ToLower(t[i])]))
  IN  SubSeq(s, 1, Min(Len(s), SlugCap))

BranchName_noindex(task, n) == <<"ralphy/">> \o slugify(task)

\* create_agent_worktree: branch_name and worktree_dir
BranchName(task, n) ==
  <<"ralphy/agent-">> \o ToDigits(n) \o <<"-">> \o slugify(task)

WorktreeDir(n) == <<"WORKTREE_BASE/agent-">> \o ToDigits(n)

\* ------------------------------------------------------------ task sources
\* the string a source hands out for line i
TaskString(src, p, i) ==
  IF src = "github" THEN ToDigits(i) \o <<":">> \o p[i].title ELSE p[i].title

PendingLines(p) == { i \in DOMAIN p : ~p[i].completed }

RECURSIVE PendingFrom(_, _, _)
PendingFrom(src, p, i) ==
  IF i > Len(p) THEN <<>>
  ELSE IF p[i].completed THEN PendingFrom(src, p, i + 1)
  ELSE <<TaskString(src, p, i)>> \o PendingFrom(src, p, i + 1)

get_all_tasks(src, p) == PendingFrom(src, p, 1)

\* ${task%%:*}
RECURSIVE BeforeColon(_)
BeforeColon(s) ==
  IF s = <<>> \/ Head(s) = ":" THEN <<>> ELSE <<Head(s)>> \o BeforeColon(Tail(s))

mark_task_complete_markdown(p, task) ==
  [i \in DOMAIN p |->
     IF ~p[i].completed /\ IsPrefix(task, p[i].title)
     THEN [p[i] EXCEPT !.completed = TRUE] ELSE p[i]]

mark_task_complete_yaml_assign(p, task) ==
  [i \in DOMAIN p |-> [p[i] EXCEPT !.completed = (p[i].title = task)]]

mark_task_complete_yaml(p, task) ==
  [i \in DOMAIN p |->
     IF p[i].title = task THEN [p[i] EXCEPT !.completed = TRUE] ELSE p[i]]

mark_task_complete_github(p, task) ==
  [i \in DOMAIN p |->
     IF ToDigits(i) = BeforeColon(task)
     THEN [p[i] EXCEPT !.completed = TRUE] ELSE p[i]]

mark_task_complete(src, p, task) ==
  CASE src = "markdown" -> mark_task_complete_markdown(p, task)
    [] src = "yaml"     -> mark_task_complete_yaml(p, task)
    [] src = "github"   -> mark_task_complete_github(p, task)

\* ------------------------------------------------------------------- state
NoSlot == [task |-> <<>>, status |-> "none", proc |-> "none", retry |-> 0,
           attempts |-> <<>>, branch |-> <<>>, out |-> <<>>, resetOk |-> TRUE,
           added |-> FALSE, tmpfile |-> FALSE]

\* ------------------------------------------------------- output records
\* A line of raw output, by what the parsers look at.  json: JSON.parse / jq
\* read it as an object.  type: its top-level "type".  quoted: the type name
\* T for which the text "type":"T" stands in the line elsewhere (inside a
\* nested object, or in a line that is no record at all, such as a message
\* the agent's CLI wrote to stderr, which run_ai_command sends to the same
\* file).  Records are in the compact form the agents emit, so a record of
\* top-level type T holds the text "type":"T" too.  Texts are sequences of
\* fragments, so that they can be joined.  tool is the value of the tool-name
\* field ("tool" or "name"), kw the keywords the text of the line holds, bulk
\* says that the line is longer than a pipe buffer (64 KiB).
Absent == <<"(no such field)">>
NoTokens == 0 - 1

Rec == [json |-> TRUE, type |-> "", quoted |-> "", result |-> Absent,
        inTok |-> NoTokens, outTok |-> NoTokens, text |-> Absent,
        emsg |-> Absent, msg |-> Absent, tool |-> "", kw |-> {}, bulk |-> FALSE]

ResultRec(x, i, o) == [Rec EXCEPT !.type = "result", !.result = x, !.inTok = i, !.outTok = o]
ErrorRec(e, m) == [Rec EXCEPT !.type = "error", !.emsg = e, !.msg = m]
TextRec(t) == [Rec EXCEPT !.type = "text", !.text = t]
StepFinishRec(i, o) == [Rec EXCEPT !.type = "step_finish", !.inTok = i, !.outTok = o]
ToolRec(t, kws) == [Rec EXCEPT !.type = "assistant", !.tool = t, !.kw = kws]
Noise(q, t, kws) == [Rec EXCEPT !.json = FALSE, !.quoted = q, !.tool = t, !.kw = kws]

Keywords == {"commit", "add", "progress", "prd", "lint", "testrun", "testfile"}

Lines ==
  { ResultRec(<<"X">>, 5, 7), ResultRec(<<"Y">>, 1, 2), ResultRec(<<>>, 3, 4),
    ResultRec(Absent, NoTokens, NoTokens),
    ErrorRec(<<"E1">>, Absent), ErrorRec(Absent, <<"E2">>),
    TextRec(<<"X">>), TextRec(<<>>), StepFinishRec(5, 7),
    Noise("", "", {}), Noise("error", "", {}), Noise("result", "", {}),
    Noise("", "", {"commit"}), Noise("", "write", {}),
    [ToolRec("", {}) EXCEPT !.bulk = TRUE], [ToolRec("", {}) EXCEPT !.quoted = "error"],
    ToolRec("write", {}), ToolRec("edit", {}), ToolRec("read", {}), ToolRec("glob", {}),
    ToolRec("grep", {}), ToolRec("bash", {}), ToolRec("bash", {"commit"}),
    ToolRec("bash", {"commit", "add"}), ToolRec("bash", {"add", "lint"}),
    ToolRec("bash", {"lint", "testrun"}), ToolRec("bash", {"testrun", "testfile"}),
    ToolRec("write", {"testfile"}), ToolRec("edit", {"lint"}),
    ToolRec("edit", {"prd"}), ToolRec("write", {"progress"}), ToolRec("read", {"prd", "lint"}) }

Raws == UNION { [1..n -> Lines] : n \in 0..MaxLines }

\* the line holds the text "type":"T" (grep '"type":"T"')
TextHasType(l, T) == (l.json /\ l.type = T) \/ l.quoted = T

\* positions of the lines grep selects, and the line tail -1 / head -1 keeps
Grep(output, T) == { i \in 1..Len(output) : TextHasType(output[i], T) }
Last(S) == CHOOSE i \in S : \A j \in S : j <= i
First(S) == CHOOSE i \in S : \A j \in S : i <= j

\* x || d of JavaScript for a text: a missing or empty text is falsy
OrElse(x, d) == IF x = Absent \/ x = <<>> THEN d ELSE x
\* x // d of jq: only a missing (null) value gives d
Alt(x, d) == IF x = Absent THEN d ELSE x
\* n || 0 and n // 0 for a token count
Count(n) == IF n = NoTokens THEN 0 ELSE n

NoResult == [response |-> <<>>, inputTokens |-> 0, outputTokens |-> 0]
NoError == [found |-> FALSE, message |-> <<>>]

\* base.ts lines 47-71: every line that parses and has type "result" sets
\* all three fields, so the last one counts
RECURSIVE parseStreamJsonResult_from(_, _)
parseStreamJsonResult_from(lines, acc) ==
  IF lines = <<>>
  THEN [acc EXCEPT !.response = OrElse(@, <<"Task completed">>)]
  ELSE LET l == Head(lines)
       IN  parseStreamJsonResult_from(Tail(lines),
             IF l.json /\ l.type = "result"
             THEN [response |-> OrElse(l.result, <<"Task completed">>),
                   inputTokens |-> Count(l.inTok),
                   outputTokens |-> Count(l.outTok)]
             ELSE acc)

parseStreamJsonResult(output) == parseStreamJsonResult_from(output, NoResult)

\* base.ts lines 76-91: the first line that parses and has type "error"
checkForErrors(output) ==
  LET hits == { i \in 1..Len(output) : output[i].json /\ output[i].type = "error" }
  IN  IF hits = {} THEN NoError
      ELSE [found |-> TRUE,
            message |-> OrElse(output[First(hits)].emsg,
                               OrElse(output[First(hits)].msg, <<"Unknown error">>))]

detectStepFromOutput_writeonly(l) ==
  IF ~l.json THEN "null"
  ELSE IF "commit" \in l.kw THEN "Committing"
  ELSE IF "add" \in l.kw THEN "Staging"
  ELSE IF "lint" \in l.kw THEN "Linting"
  ELSE IF "testrun" \in l.kw THEN "Testing"
  ELSE IF "testfile" \in l.kw THEN "Writing tests"
  ELSE IF l.tool = "write" THEN "Implementing"
  ELSE IF l.tool \in {"read", "grep"} THEN "Reading code"
  ELSE "null"

\* base.ts lines 165-241; "null" is the return value null
detectStepFromOutput(l) ==
  IF ~l.json THEN "null"
  ELSE IF "commit" \in l.kw THEN "Committing"
  ELSE IF "add" \in l.kw THEN "Staging"
  ELSE IF "lint" \in l.kw THEN "Linting"
  ELSE IF "testrun" \in l.kw THEN "Testing"
  ELSE IF "testfile" \in l.kw THEN "Writing tests"
  ELSE IF l.tool \in {"write", "edit"} THEN "Implementing"
  ELSE IF l.tool \in {"read", "glob", "grep"} THEN "Reading code"
  ELSE "null"

\* jq on a line: it fails on a line that is no JSON
RECURSIVE JoinTexts(_, _)
JoinTexts(output, sel) ==
  IF sel = {} THEN <<>>
  ELSE Alt(output[First(sel)].text, <<>>) \o JoinTexts(output, sel \ {First(sel)})

\* ralphy.sh lines 856-903.  OpenCode: tokens of the last step_finish line,
\* the text fragments of the text lines joined (jq -s fails as a whole when
\* one of the lines is no JSON), "Task completed" for an empty text.  Claude:
\* the last line that holds "type":"result".
parse_ai_result(output, opencode) ==
  IF opencode
  THEN LET fin == Grep(output, "step_finish")
           txt == Grep(output, "text")
           joined == IF \E i \in txt : ~output[i].json THEN <<>>
                     ELSE JoinTexts(output, txt)
           finl == output[Last(fin)]
       IN  [response |-> IF joined = <<>> THEN <<"Task completed">> ELSE joined,
            inputTokens |-> IF fin = {} \/ ~finl.json THEN 0 ELSE Count(finl.inTok),
            outputTokens |-> IF fin = {} \/ ~finl.json THEN 0 ELSE Count(finl.outTok)]
  ELSE LET hits == Grep(output, "result")
       IN  IF hits = {} THEN NoResult
           ELSE LET l == output[Last(hits)]
                IN  IF ~l.json
                    THEN [response |-> <<"Could not parse result">>,
                          inputTokens |-> 0, outputTokens |-> 0]
                    ELSE [response |-> Alt(l.result, <<"No result text">>),
                          inputTokens |-> Count(l.inTok),
                          outputTokens |-> Count(l.outTok)]

\* echo "$result" | grep -q under pipefail (line 908): grep leaves at its
\* first match, and an echo that still has more than a pipe buffer to write
\* is ended by SIGPIPE, which makes the pipeline fail
MaySigpipe(output) ==
  Grep(output, "error") # {}
    /\ \E i \in 1..Len(output) : i > First(Grep(output, "error")) /\ output[i].bulk

\* ralphy.sh lines 905-916
check_for_errors(output, sigpipe) ==
  LET hits == Grep(output, "error")
  IN  IF hits = {} \/ sigpipe THEN NoError
      ELSE LET l == output[First(hits)]
           IN  [found |-> TRUE,
                message |-> IF ~l.json THEN <<"Unknown error">>
                            ELSE IF l.emsg # Absent THEN l.emsg
                            ELSE IF l.msg # Absent THEN l.msg
                            ELSE <<"(the whole record)">>]

\* monitor_progress lines 653-675 on the text of the output file: the first
\* pattern that the text holds sets the step, else the step stays
monitor_step(content, step) ==
  LET has(w) == \E i \in 1..Len(content) : w \in content[i].kw
      tool(T) == \E i \in 1..Len(content) : content[i].tool \in T
  IN  IF has("commit") THEN "Committing"
      ELSE IF has("add") THEN "Staging"
      ELSE IF has("progress") THEN "Logging"
      ELSE IF has("prd") THEN "Updating PRD"
      ELSE IF has("lint") THEN "Linting"
      ELSE IF has("testrun") THEN "Testing"
      ELSE IF has("testfile") THEN "Writing tests"
      ELSE IF tool({"write", "edit"}) THEN "Implementing"
      ELSE IF tool({"read", "glob", "grep"}) THEN "Reading code"
      ELSE step

\* task sources: every task pending (agent number n then works on line n),
\* or every task complete
Prds == UNION { [1..n -> [title : Titles, completed : {FALSE}]]
                  \cup [1..n -> [title : Titles, completed : {TRUE}]] : n \in 0..MaxTasks }

\* the shell, git, the options (parse_args) and the task source of a run
Environment ==
  /\ errexitCompound \in BOOLEAN
  /\ gitAddPrints \in BOOLEAN
  /\ PARALLEL \in BOOLEAN
  /\ MAX_PARALLEL \in 0..MaxParallelBound
  /\ MAX_RETRIES \in 0..MaxRetriesBound
  /\ MAX_ITERATIONS \in 0..MaxIterationsBound
  /\ PRD_SOURCE \in Sources
  /\ stale \in {{}, {1}}
  /\ prd \in Prds

\* no output is being parsed
ParserIdle ==
  /\ USE_OPENCODE = FALSE
  /\ raw = <<>>
  /\ op = "none"
  /\ seen = 0
  /\ res = NoResult
  /\ err = NoError
  /\ detected = "none"
  /\ current_step = "Thinking"

\* a variable that holds no value yet
Unset == <<"(unset)">>

NoTotals == [input |-> 0, output |-> 0, cost |-> 0]

\* no batch is being collected (totals as in lines 63-65)
TotalsIdle ==
  /\ produced = <<>>
  /\ status_files = <<>>
  /\ output_files = <<>>
  /\ results_j = 0
  /\ total_input_tokens = 0
  /\ total_output_tokens = 0
  /\ total_actual_cost = 0
  /\ totals_before = NoTotals

\* slugify is not being called
SlugIdle ==
  /\ title = <<>>
  /\ slug = Unset
  /\ reslug = Unset

\* no task source object exists
FolderIdle ==
  /\ folder = <<>>
  /\ markdownFiles = <<>>
  /\ last_id = Unset
  /\ marked_twice = FALSE

\* no child is being streamed
StreamIdle ==
  /\ stdout = <<>>
  /\ unread = <<>>
  /\ decoder = <<>>
  /\ buffer = <<>>
  /\ delivered = <<>>
  /\ eof = FALSE
  /\ midline = FALSE

\* create_task_branch is not being called
BranchIdle ==
  /\ stash_list = <<>>
  /\ tree = "clean"
  /\ stash_before = <<>>
  /\ pushed = FALSE
  /\ popped = ""
  /\ task_branches = <<>>

AtRest == TotalsIdle /\ SlugIdle /\ FolderIdle /\ StreamIdle /\ BranchIdle

\* the globals of lines 58-71 and the repository before main runs
Fresh ==
  /\ tasks = <<>>
  /\ pc = "main"
  /\ exit_code = -1
  /\ iteration = 0
  /\ batch_start = 0
  /\ batch_num = 0
  /\ idx = 0
  /\ slot = [k \in 1..MaxTasks |-> NoSlot]
  /\ worktrees = {}
  /\ branches = { BranchName(TaskString(PRD_SOURCE, prd, k), k) : k \in stale \cap DOMAIN prd }
  /\ offBase = branches
  /\ tmpfiles = {}
  /\ WORKTREE_BASE = ""
  /\ completed_branches = <<>>
  /\ batches = <<>>
  /\ marks = {}
  /\ flips = [i \in DOMAIN prd |-> 0]
  /\ current_task = <<>>
  /\ retry_count = 0
  /\ tmpfile = ""
  /\ attempts = <<>>
  /\ result_code = 0

\* DRY_RUN=false is the default (line 21)
Init ==
  Environment /\ DRY_RUN = FALSE /\ RETRY_DELAY = "number" /\ Fresh /\ ParserIdle /\ AtRest

\* with or without --dry-run (line 207)
InitDryRun ==
  Environment /\ DRY_RUN \in BOOLEAN /\ RETRY_DELAY = "number" /\ Fresh /\ ParserIdle
  /\ AtRest

\* --retry-delay takes the next word as it is (line 219)
InitDelay ==
  Environment /\ DRY_RUN = FALSE /\ RETRY_DELAY \in {"number", "text"} /\ Fresh /\ ParserIdle
  /\ AtRest

\* one raw output handed to the output parser and the step detector; the
\* orchestrator is at rest
InitParse ==
  /\ errexitCompound = FALSE /\ gitAddPrints = FALSE /\ PARALLEL = FALSE
  /\ MAX_PARALLEL = MaxParallelBound /\ MAX_RETRIES = MaxRetriesBound
  /\ MAX_ITERATIONS = 0 /\ PRD_SOURCE = "markdown" /\ stale = {} /\ prd = <<>>
  /\ DRY_RUN = FALSE /\ RETRY_DELAY = "number"
  /\ Fresh
  /\ USE_OPENCODE \in BOOLEAN
  /\ raw \in Raws
  /\ op = "none"
  /\ seen = 0
  /\ res = NoResult
  /\ err = NoError
  /\ detected = "none"
  /\ current_step = "Thinking"
  /\ AtRest

\* the orchestrator at rest on an empty task source, no output being parsed
Quiet ==
  /\ errexitCompound = FALSE /\ gitAddPrints = FALSE /\ PARALLEL = FALSE
  /\ MAX_PARALLEL = MaxParallelBound /\ MAX_RETRIES = MaxRetriesBound
  /\ MAX_ITERATIONS = 0 /\ PRD_SOURCE = "markdown" /\ stale = {} /\ prd = <<>>
  /\ DRY_RUN = FALSE /\ RETRY_DELAY = "number"
  /\ Fresh
  /\ ParserIdle

\* ------------------------------------------------------ cleanup (EXIT trap)
\* the subshell of the agent is running
Alive(s) == s.proc \notin {"none", "exited", "killed", "orphan", "orphaned"}

\* cleanup, lines 370-407 but line 386: kill the agents, remove the worktrees
\* under WORKTREE_BASE and the base directory itself.  kill reaches the
\* subshell of an agent only, not the commands that subshell started.
Exit(code) ==
  /\ pc' = "exited"
  /\ exit_code' = code
  /\ slot' = [k \in DOMAIN slot |->
                IF Alive(slot[k]) THEN [slot[k] EXCEPT !.proc = "killed"] ELSE slot[k]]
  /\ worktrees' = IF WORKTREE_BASE = "dir" THEN {} ELSE worktrees
  /\ WORKTREE_BASE' = IF WORKTREE_BASE = "dir" THEN "removed" ELSE WORKTREE_BASE

\* ------------------------------------------------ run_parallel_tasks (main)
total_tasks == Len(tasks)
batch_end_uncapped == total_tasks
batch_end == Min(batch_start + MAX_PARALLEL, total_tasks)
batch_size == batch_end - batch_start
BatchSlots == (batch_start + 1)..batch_end

ParStart_nocheck ==
  /\ pc = "main" /\ PARALLEL
  /\ tasks' = get_all_tasks(PRD_SOURCE, prd)
  /\ WORKTREE_BASE' = "dir"
  /\ batch_start' = 0
  /\ batch_num' = 0
  /\ pc' = "batch_loop"
  /\ UNCHANGED <<cfgvars, seqvars, prd, iteration, idx, branches, offBase, tmpfiles,
                 completed_branches, batches, marks, flips, exit_code, slot, worktrees>>

\* main line 1598 -> run_parallel_tasks lines 1278-1318.  With no pending
\* task the function returns 2; the call is a simple command under errexit,
\* so the shell exits with status 2.
ParStart ==
  /\ pc = "main" /\ PARALLEL
  /\ LET ts == get_all_tasks(PRD_SOURCE, prd) IN
     IF ts = <<>>
     THEN /\ Exit(2)
          /\ UNCHANGED <<tasks, batch_start, batch_num>>
     ELSE /\ tasks' = ts
          /\ WORKTREE_BASE' = "dir"
          /\ batch_start' = 0
          /\ batch_num' = 0
          /\ pc' = "batch_loop"
          /\ UNCHANGED <<exit_code, slot, worktrees>>
  /\ UNCHANGED <<cfgvars, seqvars, prd, iteration, idx, branches, offBase, tmpfiles,
                 completed_branches, batches, marks, flips>>

\* lines 1320-1338: loop test, ((batch_num++)), batch bounds.  batch_num is 0
\* the first time, so the arithmetic command has status 1.
BatchBegin ==
  /\ pc = "batch_loop" /\ batch_start < total_tasks
  /\ IF errexitCompound /\ batch_num = 0
     THEN /\ Exit(1)
          /\ UNCHANGED <<batch_num, idx, batches>>
     ELSE /\ batch_num' = batch_num + 1
          /\ idx' = batch_start
          /\ batches' = Append(batches, <<>>)
          /\ pc' = IF batch_start < batch_end THEN "launch" ELSE "poll"
          /\ UNCHANGED <<exit_code, slot, worktrees, WORKTREE_BASE>>
  /\ UNCHANGED <<cfgvars, seqvars, prd, tasks, iteration, batch_start, branches, offBase, tmpfiles,
                 completed_branches, marks, flips>>

\* lines 1341-1365, one pass of the for loop: count the iteration, create the
\* three temp files, write "waiting", start the agent in the background
Launch ==
  /\ pc = "launch" /\ idx < batch_end
  /\ IF errexitCompound /\ iteration = 0
     THEN /\ Exit(1)
          /\ UNCHANGED <<iteration, idx, tmpfiles, batches>>
     ELSE LET n == idx + 1 IN
          /\ iteration' = iteration + 1
          /\ tmpfiles' = tmpfiles \cup {n}
          /\ slot' = [slot EXCEPT ![n] = [NoSlot EXCEPT !.task = tasks[n],
                                                        !.status = "waiting",
                                                        !.proc = "start"]]
          /\ batches' = [batches EXCEPT ![Len(batches)] = Append(@, tasks[n])]
          /\ idx' = idx + 1
          /\ pc' = IF idx + 1 = batch_end THEN "poll" ELSE "launch"
          /\ UNCHANGED <<exit_code, worktrees, WORKTREE_BASE>>
  /\ UNCHANGED <<cfgvars, seqvars, prd, tasks, batch_start, batch_num, branches, offBase,
                 completed_branches, marks, flips>>

all_done_any ==
  \E k \in BatchSlots : slot[k].status \in {"done", "failed"}

\* lines 1374-1411: what one pass over the status files computes
all_done ==
  \A k \in BatchSlots :
     CASE slot[k].status \in {"setting up", "running"} -> FALSE
       [] slot[k].status \in {"done", "failed"} -> TRUE
       [] OTHER -> ~Alive(slot[k])

\* lines 1374-1425: the poll loop leaves when a pass finds all_done
Poll ==
  /\ pc = "poll" /\ all_done
  /\ pc' = "wait"
  /\ UNCHANGED <<cfgvars, seqvars, prd, tasks, exit_code, iteration, batch_start, batch_num,
                 idx, slot, worktrees, branches, offBase, tmpfiles, WORKTREE_BASE,
                 completed_branches, batches, marks, flips>>

\* lines 1427-1430: wait for every pid of the batch.  With MAX_PARALLEL = 0
\* parallel_pids is empty, and a bash that does not apply errexit to (( ))
\* (< 4.1) is also one that takes "${parallel_pids[@]}" of an empty array for
\* an unbound variable (< 4.4) under set -u: the shell exits with status 1.
Wait ==
  /\ pc = "wait" /\ \A k \in BatchSlots : ~Alive(slot[k])
  /\ IF batch_size = 0
     THEN /\ Exit(1)
          /\ UNCHANGED idx
     ELSE /\ pc' = "results"
          /\ idx' = 0
          /\ UNCHANGED <<exit_code, slot, worktrees, WORKTREE_BASE>>
  /\ UNCHANGED <<cfgvars, seqvars, prd, tasks, iteration, batch_start, batch_num,
                 branches, offBase, tmpfiles,
                 completed_branches, batches, marks, flips>>

Flipped(old, new) == { i \in DOMAIN old : ~old[i].completed /\ new[i].completed }

\* lines 1435-1488, one pass of the results loop for slot j
Result ==
  /\ pc = "results" /\ idx < batch_size
  /\ LET n == batch_start + idx + 1
         task == tasks[n]
         newprd == mark_task_complete(PRD_SOURCE, prd, task)
     IN  IF slot[n].status = "done"
         THEN /\ completed_branches' =
                   IF slot[n].out # <<>> THEN Append(completed_branches, slot[n].out)
                   ELSE completed_branches
              /\ prd' = newprd
              /\ marks' = marks \cup {n}
              /\ flips' = [i \in DOMAIN flips |->
                             IF i \in Flipped(prd, newprd) THEN flips[i] + 1 ELSE flips[i]]
              /\ tmpfiles' = tmpfiles \ {n}
         ELSE /\ tmpfiles' = tmpfiles \ {n}
              /\ UNCHANGED <<completed_branches, prd, marks, flips>>
  /\ idx' = idx + 1
  /\ pc' = IF idx + 1 = batch_size THEN "batch_end" ELSE "results"
  /\ UNCHANGED <<cfgvars, seqvars, tasks, exit_code, iteration, batch_start, batch_num,
                 slot, worktrees, branches, offBase, WORKTREE_BASE, batches>>

\* lines 1490-1497: advance, then the iteration cap
BatchEnd ==
  /\ pc = "batch_end"
  /\ batch_start' = batch_end
  /\ pc' = IF MAX_ITERATIONS > 0 /\ iteration >= MAX_ITERATIONS
           THEN "par_finish" ELSE "batch_loop"
  /\ UNCHANGED <<cfgvars, seqvars, prd, tasks, exit_code, iteration, batch_num, idx, slot,
                 worktrees, branches, offBase, tmpfiles, WORKTREE_BASE, completed_branches,
                 batches, marks, flips>>

\* lines 1320 (loop exit), 1499-1516 and main 1600-1602: remove the base
\* directory, return 0, show the summary, exit 0
ParFinish ==
  /\ \/ pc = "par_finish"
     \/ pc = "batch_loop" /\ batch_start >= total_tasks
  /\ pc' = "exited"
  /\ exit_code' = 0
  /\ WORKTREE_BASE' = "removed"
  /\ UNCHANGED <<cfgvars, seqvars, prd, tasks, iteration, batch_start, batch_num, idx, slot,
                 worktrees, branches, offBase, tmpfiles, completed_branches, batches,
                 marks, flips>>

\* ------------------------------------------------------ run_parallel_agent
\* line 1158
AgentSetup(n) ==
  /\ slot[n].proc = "start"
  /\ slot' = [slot EXCEPT ![n].status = "setting up", ![n].proc = "create"]
  /\ UNCHANGED <<cfgvars, seqvars, prd, tasks, pc, exit_code, iteration, batch_start,
                 batch_num, idx, worktrees, branches, offBase, tmpfiles, WORKTREE_BASE,
                 completed_branches, batches, marks, flips>>

\* create_agent_worktree, lines 1114-1135, for one outcome of git worktree add.
\* git branch -f fails for a branch checked out in another worktree and its
\* failure is swallowed (|| true); rm -rf removes the directory; git worktree
\* add -f needs the branch to exist.  The caller takes the text before the
\* first "|" of the function's stdout as the directory (line 1163): that is
\* the directory only when git wrote nothing to stdout.  The branch is
\* checked out elsewhere when an earlier run left it so (stale) or when the
\* slot's own directory is still a registered worktree of it.
create_agent_worktree(task, n, addOk) ==
  LET name == BranchName(task, n)
      resetOk == ~(name \in branches /\ (n \in stale \/ n \in worktrees))
      br == IF resetOk THEN branches \cup {name} ELSE branches
      added == addOk /\ name \in br
  IN  [branch |-> name, resetOk |-> resetOk, branches |-> br, added |-> added,
       offBase |-> IF resetOk THEN offBase \ {name} ELSE offBase,
       worktrees |-> IF added THEN worktrees \cup {n} ELSE worktrees \ {n},
       dirFound |-> added /\ ~gitAddPrints]

\* lines 1160-1181 and 1197-1204
AgentCreate(n) ==
  /\ slot[n].proc = "create"
  /\ \E addOk \in BOOLEAN :
       LET r == create_agent_worktree(slot[n].task, n, addOk) IN
       /\ branches' = r.branches
       /\ offBase' = r.offBase
       /\ worktrees' = r.worktrees
       /\ slot' = IF ~r.dirFound
                  THEN [slot EXCEPT ![n].status = "failed", ![n].proc = "exited",
                                    ![n].branch = r.branch, ![n].resetOk = r.resetOk,
                                    ![n].added = r.added]
                  ELSE [slot EXCEPT ![n].status = "running", ![n].proc = "loop",
                                    ![n].branch = r.branch, ![n].resetOk = r.resetOk,
                                    ![n].added = r.added, ![n].tmpfile = TRUE]
  /\ UNCHANGED <<cfgvars, seqvars, prd, tasks, pc, exit_code, iteration, batch_start,
                 batch_num, idx, tmpfiles, WORKTREE_BASE, completed_branches,
                 batches, marks, flips>>

AgentAttempt_unchecked(n) ==
  /\ slot[n].proc = "loop" /\ slot[n].retry < MAX_RETRIES
  /\ \E kind \in Kinds :
       slot' = [slot EXCEPT ![n].attempts = Append(@, kind), ![n].proc = "success"]
  /\ UNCHANGED <<cfgvars, seqvars, prd, tasks, pc, exit_code, iteration, batch_start,
                 batch_num, idx, worktrees, branches, offBase, tmpfiles, WORKTREE_BASE,
                 completed_branches, batches, marks, flips>>

AgentAttempt_resetup(n) ==
  /\ slot[n].proc = "loop" /\ slot[n].retry < MAX_RETRIES
  /\ \E kind \in Kinds :
       slot' = [slot EXCEPT ![n].attempts = Append(@, kind),
                            ![n].retry = IF kind # "empty" THEN @ ELSE @ + 1,
                            ![n].status = IF kind # "empty" THEN @ ELSE "setting up",
                            ![n].proc = IF kind # "empty" THEN "success" ELSE "create"]
  /\ UNCHANGED <<cfgvars, seqvars, prd, tasks, pc, exit_code, iteration, batch_start,
                 batch_num, idx, worktrees, branches, offBase, tmpfiles, WORKTREE_BASE,
                 completed_branches, batches, marks, flips>>

AgentAttempt_onemore(n) ==
  /\ slot[n].proc = "loop" /\ slot[n].retry <= MAX_RETRIES
  /\ \E kind \in Kinds :
       slot' = [slot EXCEPT ![n].attempts = Append(@, kind),
                            ![n].retry = IF kind # "empty" THEN @ ELSE @ + 1,
                            ![n].proc = IF kind # "empty" THEN "success" ELSE "loop"]
  /\ UNCHANGED <<cfgvars, seqvars, prd, tasks, pc, exit_code, iteration, batch_start,
                 batch_num, idx, worktrees, branches, offBase, tmpfiles, WORKTREE_BASE,
                 completed_branches, batches, marks, flips>>

\* lines 1206-1233, one pass of the retry loop: invoke the agent, read its
\* output, leave on a non-empty result, else count the retry and sleep.
\* sleep fails on a delay that is no number, and errexit (line 9) then ends
\* the agent's subshell where it stands: the status file keeps "running".
AgentAttempt(n) ==
  /\ slot[n].proc = "loop" /\ slot[n].retry < MAX_RETRIES
  /\ \E kind \in Kinds :
       slot' = [slot EXCEPT ![n].attempts = Append(@, kind),
                            ![n].retry = IF kind # "empty" THEN @ ELSE @ + 1,
                            ![n].proc = IF kind # "empty" THEN "success"
                                        ELSE IF RETRY_DELAY = "number" THEN "loop"
                                        ELSE "exited"]
  /\ UNCHANGED <<cfgvars, seqvars, prd, tasks, pc, exit_code, iteration, batch_start,
                 batch_num, idx, worktrees, branches, offBase, tmpfiles, WORKTREE_BASE,
                 completed_branches, batches, marks, flips>>

AgentReport_failbatch(n) ==
  /\ \/ slot[n].proc = "success"
     \/ slot[n].proc = "loop" /\ slot[n].retry >= MAX_RETRIES
  /\ slot' = IF slot[n].proc = "success"
             THEN [slot EXCEPT ![n].status = "done", ![n].out = slot[n].branch,
                               ![n].proc = "cleanup", ![n].tmpfile = FALSE]
             ELSE [k \in DOMAIN slot |->
                     IF k = n
                     THEN [slot[k] EXCEPT !.status = "failed", !.proc = "cleanup",
                                          !.tmpfile = FALSE]
                     ELSE IF slot[k].status = "running"
                     THEN [slot[k] EXCEPT !.status = "failed"]
                     ELSE slot[k]]
  /\ UNCHANGED <<cfgvars, seqvars, prd, tasks, pc, exit_code, iteration, batch_start,
                 batch_num, idx, worktrees, branches, offBase, tmpfiles, WORKTREE_BASE,
                 completed_branches, batches, marks, flips>>

\* lines 1235-1264 and 1270-1272: the loop is over; write status and output
AgentReport(n) ==
  /\ \/ slot[n].proc = "success"
     \/ slot[n].proc = "loop" /\ slot[n].retry >= MAX_RETRIES
  /\ slot' = IF slot[n].proc = "success"
             THEN [slot EXCEPT ![n].status = "done", ![n].out = slot[n].branch,
                               ![n].proc = "cleanup", ![n].tmpfile = FALSE]
             ELSE [slot EXCEPT ![n].status = "failed", ![n].proc = "cleanup",
                               ![n].tmpfile = FALSE]
  /\ UNCHANGED <<cfgvars, seqvars, prd, tasks, pc, exit_code, iteration, batch_start,
                 batch_num, idx, worktrees, branches, offBase, tmpfiles, WORKTREE_BASE,
                 completed_branches, batches, marks, flips>>

AgentCleanup_delbranch(n) ==
  /\ slot[n].proc = "cleanup"
  /\ worktrees' = worktrees \ {n}
  /\ branches' = branches \ {slot[n].branch}
  /\ slot' = [slot EXCEPT ![n].proc = "exited", ![n].retry = 0, ![n].attempts = <<>>]
  /\ UNCHANGED <<cfgvars, seqvars, prd, tasks, pc, exit_code, iteration, batch_start,
                 batch_num, idx, offBase, tmpfiles, WORKTREE_BASE,
                 completed_branches, batches, marks, flips>>

\* cleanup_agent_worktree, lines 1138-1148, then return (1269 / 1274); the
\* locals of the agent's subshell end with it
AgentCleanup(n) ==
  /\ slot[n].proc = "cleanup"
  /\ worktrees' = worktrees \ {n}
  /\ slot' = [slot EXCEPT ![n].proc = "exited", ![n].retry = 0, ![n].attempts = <<>>]
  /\ UNCHANGED <<cfgvars, seqvars, prd, tasks, pc, exit_code, iteration, batch_start,
                 batch_num, idx, branches, offBase, tmpfiles, WORKTREE_BASE,
                 completed_branches, batches, marks, flips>>

Agent(n) ==
  \/ AgentSetup(n)
  \/ AgentCreate(n)
  \/ AgentAttempt(n)
  \/ AgentReport(n)
  \/ AgentCleanup(n)

\* ------------------------------------------------- signal (INT, TERM, HUP)
\* main line 1572, trap 'exit 130', then the EXIT trap: cleanup, lines
\* 370-407.  kill "$pid" (line 379) ends the subshell of an agent; a command
\* substitution that subshell was waiting for, $(create_agent_worktree ...) of
\* line 1162, is a process of its own and runs on.  Line 386 removes the
\* global tmpfile; the files of lines 1346-1348 and 1199 are in no list that
\* cleanup reads.
Interrupt ==
  /\ pc # "exited"
  /\ pc' = "exited"
  /\ exit_code' = 130
  /\ slot' = [k \in DOMAIN slot |->
                IF slot[k].proc = "create" THEN [slot[k] EXCEPT !.proc = "orphan"]
                ELSE IF Alive(slot[k]) THEN [slot[k] EXCEPT !.proc = "killed"]
                ELSE slot[k]]
  /\ tmpfile' = ""
  /\ worktrees' = IF WORKTREE_BASE = "dir" THEN {} ELSE worktrees
  /\ WORKTREE_BASE' = IF WORKTREE_BASE = "dir" THEN "removed" ELSE WORKTREE_BASE
  /\ UNCHANGED <<cfgvars, current_task, retry_count, attempts, result_code, prd, tasks,
                 iteration, batch_start, batch_num, idx, branches, offBase, tmpfiles,
                 completed_branches, batches, marks, flips>>

\* the create_agent_worktree that outlived its agent's subshell completes
\* (lines 1122-1132); nothing reads what it prints
OrphanCreate(n) ==
  /\ slot[n].proc = "orphan"
  /\ \E addOk \in BOOLEAN :
       LET r == create_agent_worktree(slot[n].task, n, addOk) IN
       /\ branches' = r.branches
       /\ offBase' = r.offBase
       /\ worktrees' = r.worktrees
       /\ slot' = [slot EXCEPT ![n].proc = "orphaned", ![n].branch = r.branch,
                               ![n].resetOk = r.resetOk, ![n].added = r.added]
  /\ UNCHANGED <<cfgvars, seqvars, prd, tasks, pc, exit_code, iteration, batch_start,
                 batch_num, idx, tmpfiles, WORKTREE_BASE, completed_branches,
                 batches, marks, flips>>

\* ------------------------------------- create_agent_worktree, called twice
\* a slot as run_parallel_tasks hands it to run_parallel_agent (lines
\* 1296-1365 and 1158), for one pending task of the source
CreateStart ==
  /\ pc = "main" /\ PARALLEL
  /\ \E n \in PendingLines(prd) :
       /\ slot' = [slot EXCEPT ![n] = [NoSlot EXCEPT !.task = TaskString(PRD_SOURCE, prd, n),
                                                     !.status = "setting up",
                                                     !.proc = "create"]]
       /\ tmpfiles' = {n}
  /\ tasks' = get_all_tasks(PRD_SOURCE, prd)
  /\ WORKTREE_BASE' = "dir"
  /\ idx' = 0
  /\ pc' = "create"
  /\ UNCHANGED <<cfgvars, seqvars, prd, exit_code, iteration, batch_start, batch_num,
                 worktrees, branches, offBase, completed_branches, batches, marks, flips>>

\* one call of create_agent_worktree (lines 1114-1135) in which git worktree
\* add meets no failure of its own; idx counts the calls
CreateCall ==
  /\ pc = "create" /\ idx < 2
  /\ \E n \in 1..MaxTasks :
       /\ slot[n].proc = "create"
       /\ LET r == create_agent_worktree(slot[n].task, n, TRUE) IN
          /\ branches' = r.branches
          /\ offBase' = r.offBase
          /\ worktrees' = r.worktrees
          /\ slot' = [slot EXCEPT ![n].branch = r.branch, ![n].resetOk = r.resetOk,
                                  ![n].added = r.added]
  /\ idx' = idx + 1
  /\ UNCHANGED <<cfgvars, seqvars, prd, tasks, pc, exit_code, iteration, batch_start,
                 batch_num, tmpfiles, WORKTREE_BASE, completed_branches, batches,
                 marks, flips>>

\* ------------------------------------------------- sequential loop (main)
\* raw output of a sequential invocation; "complete" is a result record whose
\* text is <promise>COMPLETE</promise>, "mention" an output that holds the
\* marker in some other record (the assistant quoting its instructions, a
\* file it printed) and a result record without it
SeqKinds == Kinds \cup {"complete", "mention"}

\* line 1098: the test is on the raw output
HasMarker(kind) == kind \in {"complete", "mention"}

FirstPending(p) == CHOOSE i \in PendingLines(p) : \A k \in PendingLines(p) : i <= k

get_next_task(src, p) ==
  IF PendingLines(p) = {} THEN <<>> ELSE TaskString(src, p, FirstPending(p))

\* main lines 1619-1633: act on the return code, then the iteration cap; tf
\* is the global tmpfile as run_single_task left it, cleanup removes it
\* (line 386)
AfterTask(rc, it, tf) ==
  IF rc = 2 \/ (MAX_ITERATIONS > 0 /\ it >= MAX_ITERATIONS)
  THEN /\ Exit(0)
       /\ tmpfile' = ""
  ELSE /\ pc' = "main"
       /\ tmpfile' = tf
       /\ UNCHANGED <<exit_code, slot, worktrees, WORKTREE_BASE>>

\* main lines 1606-1609 and run_single_task lines 937-990: count the
\* iteration (iteration is 0 the first time), fetch the next task, make the
\* temp file; with --dry-run show the prompt, remove the file and return 0
SeqBegin ==
  /\ pc = "main" /\ ~PARALLEL /\ iteration < MaxSeqIter
  /\ IF errexitCompound /\ iteration = 0
     THEN /\ Exit(1)
          /\ UNCHANGED <<iteration, seqvars>>
     ELSE /\ iteration' = iteration + 1
          /\ retry_count' = 0
          /\ attempts' = <<>>
          /\ current_task' = get_next_task(PRD_SOURCE, prd)
          /\ IF current_task' = <<>>
             THEN /\ result_code' = 2
                  /\ AfterTask(2, iteration + 1, tmpfile)
             ELSE IF DRY_RUN
             THEN /\ result_code' = 0
                  /\ AfterTask(0, iteration + 1, "")
             ELSE /\ result_code' = 0
                  /\ tmpfile' = "file"
                  /\ pc' = "seq_loop"
                  /\ UNCHANGED <<exit_code, slot, worktrees, WORKTREE_BASE>>
  /\ UNCHANGED <<cfgvars, prd, tasks, batch_start, batch_num, idx, branches, offBase,
                 tmpfiles, completed_branches, batches, marks, flips>>

\* the agent works in the repository itself and is told to mark the task in
\* the markdown or yaml file; it may do so or not
AgentEdits(p, kind) ==
  IF kind \in {"ok", "complete", "mention"} /\ PRD_SOURCE # "github" /\ PendingLines(p) # {}
  THEN {p, [p EXCEPT ![FirstPending(p)].completed = TRUE]}
  ELSE {p}

\* run_single_task lines 992-1103, one pass of the retry loop
SeqAttempt ==
  /\ pc = "seq_loop" /\ retry_count < MAX_RETRIES
  /\ \E kind \in SeqKinds : \E edited \in AgentEdits(prd, kind) :
       LET failed == kind \in {"empty", "error"}
           marked == IF ~failed /\ PRD_SOURCE = "github"
                     THEN mark_task_complete(PRD_SOURCE, edited, current_task)
                     ELSE edited
           rc == IF failed THEN 1 ELSE IF HasMarker(kind) THEN 2 ELSE 0
       IN  /\ attempts' = Append(attempts, kind)
           /\ prd' = marked
           /\ flips' = [i \in DOMAIN flips |->
                          IF i \in Flipped(prd, marked) THEN flips[i] + 1 ELSE flips[i]]
           /\ marks' = IF ~failed /\ PRD_SOURCE = "github"
                       THEN marks \cup {iteration} ELSE marks
           /\ retry_count' = IF failed THEN retry_count + 1 ELSE retry_count
           /\ IF failed /\ retry_count + 1 < MAX_RETRIES
              THEN /\ pc' = "seq_loop"
                   /\ UNCHANGED <<result_code, tmpfile, exit_code, slot, worktrees,
                                  WORKTREE_BASE>>
              ELSE /\ result_code' = rc
                   /\ AfterTask(rc, iteration, "")
  /\ UNCHANGED <<cfgvars, current_task, tasks, iteration, batch_start, batch_num,
                 idx, branches, offBase, tmpfiles, completed_branches, batches>>

\* run_single_task lines 992 and 1105-1106: the loop is never entered, the
\* temp file stays
SeqNoAttempt ==
  /\ pc = "seq_loop" /\ retry_count >= MAX_RETRIES
  /\ result_code' = 1
  /\ AfterTask(1, iteration, tmpfile)
  /\ UNCHANGED <<cfgvars, current_task, retry_count, attempts, prd, tasks,
                 iteration, batch_start, batch_num, idx, branches, offBase, tmpfiles,
                 completed_branches, batches, marks, flips>>

\* ------------------------------------------------------------ output parser
\* base.ts parseStreamJsonResult on the raw output
ParseStreamJson ==
  /\ op = "none"
  /\ op' = "parseStreamJsonResult"
  /\ res' = parseStreamJsonResult(raw)
  /\ UNCHANGED <<envvars, libvars, runvars, USE_OPENCODE, raw, seen, err, detected, current_step>>

\* ralphy.sh parse_ai_result on the raw output (lines 1049, 1240); the
\* callers have found the output not empty before (lines 1017, 1225)
ParseAiResult ==
  /\ op = "none" /\ raw # <<>>
  /\ op' = "parse_ai_result"
  /\ res' = parse_ai_result(raw, USE_OPENCODE)
  /\ UNCHANGED <<envvars, libvars, runvars, USE_OPENCODE, raw, seen, err, detected, current_step>>

\* base.ts checkForErrors on the raw output
CheckForErrorsTs ==
  /\ op = "none"
  /\ op' = "checkForErrors"
  /\ err' = checkForErrors(raw)
  /\ UNCHANGED <<envvars, libvars, runvars, USE_OPENCODE, raw, seen, res, detected, current_step>>

\* ralphy.sh check_for_errors on the raw output (line 1033), which is not
\* empty (line 1017)
CheckForErrorsSh ==
  /\ op = "none" /\ raw # <<>>
  /\ op' = "check_for_errors"
  /\ \E sigpipe \in (IF MaySigpipe(raw) THEN BOOLEAN ELSE {FALSE}) :
       err' = check_for_errors(raw, sigpipe)
  /\ UNCHANGED <<envvars, libvars, runvars, USE_OPENCODE, raw, seen, res, detected, current_step>>

\* base.ts detectStepFromOutput on the next line of the output, as
\* execCommandStreaming hands the lines on one by one (lines 138-141)
DetectStep ==
  /\ op \in {"none", "detectStepFromOutput"}
  /\ seen < Len(raw)
  /\ op' = "detectStepFromOutput"
  /\ seen' = seen + 1
  /\ detected' = detectStepFromOutput(raw[seen + 1])
  /\ UNCHANGED <<envvars, libvars, runvars, USE_OPENCODE, raw, res, err, current_step>>

\* ralphy.sh monitor_progress, one pass of its loop (lines 647-697) after
\* the agent wrote one more line to the output file
MonitorProgress ==
  /\ op \in {"none", "monitor_progress"}
  /\ seen < Len(raw)
  /\ op' = "monitor_progress"
  /\ seen' = seen + 1
  /\ current_step' = monitor_step(SubSeq(raw, 1, seen + 1), current_step)
  /\ UNCHANGED <<envvars, libvars, runvars, USE_OPENCODE, raw, res, err, detected>>

\* ------------------------------------------------------- batch bookkeeping
\* token counts and costs an agent's output can carry
TokenCounts == {0, 2}
Costs == {0, 1}

\* what run_parallel_agent arrives at for one slot: "done" with the three
\* lines after ---TOKENS--- (lines 1240-1244: input, output; the third, the
\* cost of an OpenCode run, line 902), or "failed"
Produced ==
  [status : {"done"}, inTok : TokenCounts, outTok : TokenCounts, cost : Costs]
    \cup { [status |-> "failed", inTok |-> 0, outTok |-> 0, cost |-> 0] }

\* awk '{print $k}' on the one line of the output file
Field(data, k, none) == IF k <= Len(data) THEN data[k] ELSE none

\* one batch of at most MAX_PARALLEL agents that are past their retry loop;
\* the totals are those of the batches before
InitTotals ==
  /\ Quiet /\ SlugIdle /\ FolderIdle /\ StreamIdle /\ BranchIdle
  /\ produced \in UNION { [1..n -> Produced] : n \in 1..MaxParallelBound }
  /\ status_files = [k \in DOMAIN produced |-> "running"]
  /\ output_files = [k \in DOMAIN produced |-> <<>>]
  /\ results_j = 0
  /\ total_input_tokens \in TokenCounts
  /\ total_output_tokens \in TokenCounts
  /\ total_actual_cost = 0
  /\ totals_before = [input |-> total_input_tokens, output |-> total_output_tokens,
                      cost |-> total_actual_cost]

\* run_parallel_agent lines 1262-1264 and 1270-1271: the status file and
\* the output file of slot k
AgentWrite(k) ==
  /\ k \in DOMAIN produced /\ status_files[k] = "running"
  /\ status_files' = [status_files EXCEPT ![k] = produced[k].status]
  /\ output_files' = [output_files EXCEPT ![k] =
        IF produced[k].status = "done"
        THEN <<produced[k].inTok, produced[k].outTok, BranchName(<<"A">>, k)>>
        ELSE <<0, 0>>]
  /\ UNCHANGED <<envvars, parsevars, runvars, slugvars, foldervars, streamvars, branchvars,
                 produced, results_j, total_input_tokens, total_output_tokens,
                 total_actual_cost, totals_before>>

\* run_parallel_tasks lines 1435-1488, the token and branch part of one pass
\* of the results loop; the poll loop and the waits (1374-1430) are over
CollectResults ==
  /\ \A k \in DOMAIN status_files : status_files[k] # "running"
  /\ results_j < Len(produced)
  /\ LET output_data == output_files[results_j + 1]
         in_tok == Field(output_data, 1, 0)
         out_tok == Field(output_data, 2, 0)
         branch == Field(output_data, 3, <<>>)
     IN  IF status_files[results_j + 1] = "done"
         THEN /\ total_input_tokens' = total_input_tokens + in_tok
              /\ total_output_tokens' = total_output_tokens + out_tok
              /\ completed_branches' =
                   IF branch # <<>> THEN Append(completed_branches, branch)
                   ELSE completed_branches
         ELSE UNCHANGED <<total_input_tokens, total_output_tokens, completed_branches>>
  /\ results_j' = results_j + 1
  /\ UNCHANGED <<envvars, parsevars, slugvars, foldervars, streamvars, branchvars,
                 produced, status_files, output_files, total_actual_cost, totals_before,
                 seqvars, prd, tasks, pc, exit_code, iteration, batch_start, batch_num,
                 idx, slot, worktrees, branches, offBase, tmpfiles, WORKTREE_BASE,
                 batches, marks, flips>>

\* ------------------------------------------------------------------ slugify
\* titles that reach the cut: a run of letters, a separator, more letters
MaxTitleRun == SlugCap + 1

Run(c, n) == [i \in 1..n |-> c]

Mids == { <<>>, <<" ">>, <<"!", " ">>, <<"-">> }

LongTitles ==
  { Run("a", n) \o mid \o Run("B", m) : n \in 0..MaxTitleRun, mid \in Mids, m \in 0..2 }

\* slugify is about to be called on a title (lines 573, 1117)
InitSlug ==
  /\ Quiet /\ TotalsIdle /\ FolderIdle /\ StreamIdle /\ BranchIdle
  /\ title \in LongTitles
  /\ slug = Unset
  /\ reslug = Unset

\* slugify "$title"
Slugify ==
  /\ slug = Unset
  /\ slug' = slugify(title)
  /\ UNCHANGED <<envvars, parsevars, runvars, totalsvars, foldervars, streamvars,
                 branchvars, title, reslug>>

\* slugify on what slugify printed
Reslugify ==
  /\ slug # Unset /\ reslug = Unset
  /\ reslug' = slugify(slug)
  /\ UNCHANGED <<envvars, parsevars, runvars, totalsvars, foldervars, streamvars,
                 branchvars, title, slug>>

\* ------------------------------------------------- MarkdownFolderTaskSource
\* A file is its content: a sequence of characters, where the texts
\* "- [ ] ", "- [x] " and "- [X] " each stand as one.
Box == "- [ ] "
Checked == "- [x] "
CheckedUpper == "- [X] "

MaxFileLines == 2

\* the lines a file is made of
FolderLines ==
  { <<Box, "a">>, <<Box, "b", " ">>, <<Box>>, <<Box, "a", "\r">>,
    <<Checked, "a">>, <<CheckedUpper, "a">>, <<"a">>, <<>> }

\* lines.join("\n")
RECURSIVE JoinLines(_)
JoinLines(lines) ==
  IF Len(lines) = 1 THEN lines[1]
  ELSE lines[1] \o <<"\n">> \o JoinLines(Tail(lines))

\* content.split("\n"): at least one line, the last one what follows the
\* last "\n"
RECURSIVE SplitLines(_)
SplitLines(content) ==
  IF \A i \in 1..Len(content) : content[i] # "\n" THEN <<content>>
  ELSE LET nl == CHOOSE i \in 1..Len(content) :
                   content[i] = "\n" /\ \A k \in 1..(i - 1) : content[k] # "\n"
       IN  <<SubSeq(content, 1, nl - 1)>> \o SplitLines(SubSeq(content, nl + 1, Len(content)))

\* what "." does not match and what "^" with the m flag starts after
IsTerminator(c) == c \in {"\n", "\r"}

IsSpace(c) == c \in {" ", "\r", "\n"}

\* String.prototype.trim
RECURSIVE Trim(_)
Trim(s) ==
  IF s = <<>> THEN s
  ELSE IF IsSpace(s[1]) THEN Trim(Tail(s))
  ELSE IF IsSpace(s[Len(s)]) THEN Trim(SubSeq(s, 1, Len(s) - 1))
  ELSE s

\* line.match(/^- \[ \] (.+)$/): one character or more after the box, none
\* of them a line terminator, up to the end of the line
MatchIncomplete(line) ==
  /\ Len(line) >= 2
  /\ line[1] = Box
  /\ \A i \in 2..Len(line) : ~IsTerminator(line[i])

\* the positions where a regex with flags gm and a leading "^" can match
LineStarts(content) ==
  { i \in 1..Len(content) : i = 1 \/ IsTerminator(content[i - 1]) }

\* the file names of the folder: <<"a", ".md">> is a.md
FileNames == << <<"a", ".md">>, <<"b", ":", "d", ".md">>, <<"n", ".txt">> >>

\* entry.endsWith(".md")
EndsWithMd(name) == name # <<>> /\ name[Len(name)] = ".md"

\* scanForMarkdownFiles: the .md files, sorted
scanForMarkdownFiles(fs) ==
  SelectSeq(FileNames, LAMBDA name : name \in DOMAIN fs /\ EndsWithMd(name))

\* createTaskId: `${basename(filePath)}:${lineNumber}`
createTaskId(name, lineNumber) == name \o <<":">> \o ToDigits(lineNumber)

NaN == 0 - 1

\* Number.parseInt(s, 10): the digits s starts with, NaN when there is none
RECURSIVE parseInt_from(_, _)
parseInt_from(s, acc) ==
  IF s = <<>> \/ s[1] \notin Digit THEN acc
  ELSE parseInt_from(Tail(s),
         (IF acc = NaN THEN 0 ELSE 10 * acc)
           + (CHOOSE d \in 0..9 : DigitChar(d) = s[1]))

parseInt(s) == parseInt_from(s, NaN)

Colons(id) == { i \in 1..Len(id) : id[i] = ":" }

\* parseTaskId: split at the last colon; none: throws
parseTaskId(id) ==
  IF Colons(id) = {} THEN [throws |-> TRUE, fileName |-> <<>>, lineNumber |-> NaN]
  ELSE [throws |-> FALSE,
        fileName |-> SubSeq(id, 1, Last(Colons(id)) - 1),
        lineNumber |-> parseInt(SubSeq(id, Last(Colons(id)) + 1, Len(id)))]

\* the tasks of one file from line i on
RECURSIVE TasksOfLines(_, _, _)
TasksOfLines(name, lines, i) ==
  IF i > Len(lines) THEN <<>>
  ELSE (IF MatchIncomplete(lines[i])
        THEN << [id |-> createTaskId(name, i),
                 title |-> Trim(Tail(lines[i])),
                 completed |-> FALSE] >>
        ELSE <<>>)
       \o TasksOfLines(name, lines, i + 1)

\* getAllTasks over the files from position k of the scanned list on
RECURSIVE getAllTasks_from(_, _, _)
getAllTasks_from(fs, files, k) ==
  IF k > Len(files) THEN <<>>
  ELSE TasksOfLines(files[k], SplitLines(fs[files[k]]), 1)
         \o getAllTasks_from(fs, files, k + 1)

getAllTasks(fs, files) == getAllTasks_from(fs, files, 1)

NoTask == [id |-> <<>>, title |-> <<>>, completed |-> FALSE]

\* getNextTask: tasks[0] || null
getNextTask(fs, files) ==
  IF getAllTasks(fs, files) = <<>> THEN NoTask ELSE getAllTasks(fs, files)[1]

\* content.match(/^- \[ \] /gm)?.length || 0, summed over the files
RECURSIVE countRemaining_from(_, _, _)
countRemaining_from(fs, files, k) ==
  IF k > Len(files) THEN 0
  ELSE Cardinality({ i \in LineStarts(fs[files[k]]) : fs[files[k]][i] = Box })
         + countRemaining_from(fs, files, k + 1)

countRemaining(fs, files) == countRemaining_from(fs, files, 1)

\* content.match(/^- \[x\] /gim)?.length || 0, summed over the files
RECURSIVE countCompleted_from(_, _, _)
countCompleted_from(fs, files, k) ==
  IF k > Len(files) THEN 0
  ELSE Cardinality({ i \in LineStarts(fs[files[k]]) :
                       fs[files[k]][i] \in {Checked, CheckedUpper} })
         + countCompleted_from(fs, files, k + 1)

countCompleted(fs, files) == countCompleted_from(fs, files, 1)

\* lines[lineIndex].replace(/^- \[ \] /, "- [x] ")
ReplaceBox(line) ==
  IF line # <<>> /\ line[1] = Box THEN <<Checked>> \o Tail(line) ELSE line

ToggleBox(line) ==
  IF line # <<>> /\ line[1] = Box THEN <<Checked>> \o Tail(line)
  ELSE IF line # <<>> /\ line[1] = Checked THEN <<Box>> \o Tail(line)
  ELSE line

markComplete_toggle(fs, id) ==
  LET p == parseTaskId(id)
      lines == SplitLines(fs[p.fileName])
      lineIndex == p.lineNumber - 1
  IN  IF p.throws \/ p.fileName \notin DOMAIN fs THEN fs
      ELSE IF lineIndex >= 0 /\ lineIndex < Len(lines)
      THEN [fs EXCEPT ![p.fileName] =
              JoinLines([lines EXCEPT ![lineIndex + 1] = ToggleBox(@)])]
      ELSE fs

\* markComplete: the files after the call.  parseTaskId throwing (line 49)
\* and readFileSync throwing on a file that is not there (line 97) leave
\* them as they are.
markComplete(fs, id) ==
  LET p == parseTaskId(id)
      lines == SplitLines(fs[p.fileName])
      lineIndex == p.lineNumber - 1
  IN  IF p.throws \/ p.fileName \notin DOMAIN fs THEN fs
      ELSE IF lineIndex >= 0 /\ lineIndex < Len(lines)
      THEN [fs EXCEPT ![p.fileName] =
              JoinLines([lines EXCEPT ![lineIndex + 1] = ReplaceBox(@)])]
      ELSE fs

\* the contents a file can have
Contents ==
  { JoinLines(ls) : ls \in UNION { [1..n -> FolderLines] : n \in 1..MaxFileLines } }

\* the folders: a.md, with or without a b:d.md of one line, with or
\* without n.txt
Folders ==
  [{FileNames[1]} -> Contents]
    \cup { [name \in {FileNames[1], FileNames[2]} |->
              IF name = FileNames[1] THEN c ELSE l] : c \in Contents, l \in FolderLines }

WithText(fs) == [name \in DOMAIN fs \cup {FileNames[3]} |->
                   IF name \in DOMAIN fs THEN fs[name] ELSE <<Box, "a">>]

\* the ids markComplete is called with
LineWords == {"0", "1", "2", "3", "x"}

Ids ==
  { FileNames[k] \o <<":", w>> : k \in 1..3, w \in LineWords }
    \cup { FileNames[1], FileNames[1] \o <<":", "1", "0">> }

\* task sources with tasks of either state
MixedPrds == UNION { [1..n -> [title : Titles, completed : BOOLEAN]] : n \in 1..MaxLines }

\* a task source before a markComplete: a MarkdownFolderTaskSource on a
\* folder (constructor, lines 14-17), or the PRD of the script
InitSources ==
  /\ errexitCompound = FALSE /\ gitAddPrints = FALSE /\ PARALLEL = FALSE
  /\ MAX_PARALLEL = MaxParallelBound /\ MAX_RETRIES = MaxRetriesBound
  /\ MAX_ITERATIONS = 0 /\ stale = {}
  /\ DRY_RUN = FALSE /\ RETRY_DELAY = "number"
  /\ \/ /\ PRD_SOURCE = "markdown" /\ prd = <<>>
        /\ \E fs \in Folders : folder \in {fs, WithText(fs)}
     \/ /\ PRD_SOURCE \in Sources /\ prd \in MixedPrds
        /\ folder = <<>>
  /\ markdownFiles = scanForMarkdownFiles(folder)
  /\ last_id = Unset
  /\ marked_twice = FALSE
  /\ Fresh /\ ParserIdle
  /\ TotalsIdle /\ SlugIdle /\ StreamIdle /\ BranchIdle

\* MarkdownFolderTaskSource.markComplete(id)
MarkCompleteFolder ==
  /\ folder # <<>>
  /\ \E id \in Ids :
       /\ folder' = markComplete(folder, id)
       /\ last_id' = id
       /\ marked_twice' = (last_id = id)
  /\ UNCHANGED <<envvars, parsevars, runvars, totalsvars, slugvars, streamvars,
                 branchvars, markdownFiles>>

\* the tasks mark_task_complete is called with: those the source hands out
\* and titles of its lines
ShTasks(src, p) ==
  { TaskString(src, p, i) : i \in DOMAIN p } \cup { p[i].title : i \in DOMAIN p }

\* ralphy.sh mark_task_complete "$task"
MarkCompleteSh ==
  /\ folder = <<>>
  /\ \E task \in ShTasks(PRD_SOURCE, prd) :
       /\ prd' = mark_task_complete(PRD_SOURCE, prd, task)
       /\ last_id' = task
       /\ marked_twice' = (last_id = task)
  /\ UNCHANGED <<envvars, parsevars, totalsvars, slugvars, streamvars, branchvars,
                 folder, markdownFiles,
                 seqvars, tasks, pc, exit_code, iteration, batch_start, batch_num,
                 idx, slot, worktrees, branches, offBase, tmpfiles, WORKTREE_BASE,
                 completed_branches, batches, marks, flips>>

\* ----------------------------------------------------- execCommandStreaming
\* The child's stdout is a sequence of bytes: "a", " " and "\n" are
\* characters of one byte, "C3" "A9" are the two bytes of one character.
\* The streams are those of a child that writes text: every "C3" is
\* followed by its "A9".
MaxBytes == 5

Bytes == {"a", " ", "\n", "C3", "A9"}

WellFormed(bs) ==
  \A i \in 1..Len(bs) :
     /\ bs[i] = "C3" => (i < Len(bs) /\ bs[i + 1] = "A9")
     /\ bs[i] = "A9" => (i > 1 /\ bs[i - 1] = "C3")

Streams ==
  { bs \in UNION { [1..n -> Bytes] : n \in 0..MaxBytes } : WellFormed(bs) }

\* the characters of a sequence of bytes; a first byte with nothing after
\* it gives none yet
RECURSIVE decode_chars(_)
decode_chars(bs) ==
  IF bs = <<>> THEN <<>>
  ELSE IF bs[1] = "C3"
       THEN IF Len(bs) = 1 THEN <<>>
            ELSE IF bs[2] = "A9" THEN <<"U+00E9">> \o decode_chars(SubSeq(bs, 3, Len(bs)))
            ELSE <<"U+FFFD">> \o decode_chars(Tail(bs))
  ELSE IF bs[1] = "A9" THEN <<"U+FFFD">> \o decode_chars(Tail(bs))
  ELSE <<bs[1]>> \o decode_chars(Tail(bs))

\* decoder.decode(value, { stream: true }): the bytes held back are put in
\* front, a first byte at the end is held back
decode(held, value) ==
  LET bs == held \o value
  IN  [text |-> decode_chars(bs),
       held |-> IF bs # <<>> /\ bs[Len(bs)] = "C3" THEN <<"C3">> ELSE <<>>]

\* line.trim() is not empty
NonBlank(line) == Trim(line) # <<>>

Front(s) == SubSeq(s, 1, Len(s) - 1)

processChunk_nocarry(buf, held, value) ==
  LET d == decode(held, value)
      lines == SplitLines(d.text)
  IN  [buffer |-> lines[Len(lines)],
       held |-> d.held,
       lines |-> SelectSeq(Front(lines), NonBlank)]

\* lines 134-142: one pass of the read loop on the chunk value
processChunk(buf, held, value) ==
  LET d == decode(held, value)
      lines == SplitLines(buf \o d.text)
  IN  [buffer |-> lines[Len(lines)],
       held |-> d.held,
       lines |-> SelectSeq(Front(lines), NonBlank)]

\* the child is spawned (lines 103-127)
InitStream ==
  /\ Quiet /\ TotalsIdle /\ SlugIdle /\ FolderIdle /\ BranchIdle
  /\ stdout \in Streams
  /\ unread = stdout
  /\ decoder = <<>>
  /\ buffer = <<>>
  /\ delivered = <<>>
  /\ eof = FALSE
  /\ midline = FALSE

\* reader.read() gives a chunk: any number of the bytes not read yet
ReadChunk ==
  /\ ~eof /\ unread # <<>>
  /\ \E n \in 1..Len(unread) :
       LET r == processChunk(buffer, decoder, SubSeq(unread, 1, n)) IN
       /\ unread' = SubSeq(unread, n + 1, Len(unread))
       /\ decoder' = r.held
       /\ buffer' = r.buffer
       /\ delivered' = delivered \o r.lines
       /\ midline' = (midline \/ (unread[n] # "\n" /\ n < Len(unread)
                                    /\ unread[n + 1] # "\n"))
  /\ UNCHANGED <<envvars, parsevars, runvars, totalsvars, slugvars, foldervars,
                 branchvars, stdout, eof>>

\* reader.read() says done (line 132), then lines 146-148
ReadDone ==
  /\ ~eof /\ unread = <<>>
  /\ eof' = TRUE
  /\ delivered' = IF NonBlank(buffer) THEN Append(delivered, buffer) ELSE delivered
  /\ UNCHANGED <<envvars, parsevars, runvars, totalsvars, slugvars, foldervars,
                 branchvars, stdout, unread, decoder, buffer, midline>>

\* ------------------------------------------------------ create_task_branch
MaxStash == 2

\* what the working tree holds against HEAD: nothing, changes to tracked
\* files, or untracked files only (which git stash push does not save)
Trees == {"clean", "modified", "untracked"}

\* stash entries by their message
Entries == {"users-own-work", "ralphy-autostash"}

Stashes == UNION { [1..n -> Entries] : n \in 0..MaxStash }

\* the repository when a run with --branch-per-task begins
InitBranch ==
  /\ Quiet /\ TotalsIdle /\ SlugIdle /\ FolderIdle /\ StreamIdle
  /\ stash_list \in Stashes
  /\ tree \in Trees
  /\ stash_before = stash_list
  /\ pushed = FALSE
  /\ popped = ""
  /\ task_branches = <<>>

\* git stash push -m "ralphy-autostash" || true (line 579): saves the
\* changes to tracked files, if there are any
stash_push(st, tr) ==
  IF tr = "modified" THEN <<"ralphy-autostash">> \o st ELSE st

\* git stash pop || true (line 590): fails on an empty stack or when the top
\* entry does not apply, else applies the top entry and drops it
stash_pop(st, applies) ==
  IF st # <<>> /\ applies THEN Tail(st) ELSE st

\* create_task_branch, lines 571-593, for a task; applies: the top stash
\* entry applies to the working tree of the task's branch
CreateTaskBranch ==
  /\ Len(task_branches) < MaxSeqIter
  /\ \E task \in Titles, applies \in BOOLEAN :
       LET branch_name == <<"ralphy/">> \o slugify(task)
           own == tree = "modified"
           st == stash_push(stash_list, tree)
       IN  /\ stash_before' = stash_list
           /\ pushed' = own
           /\ stash_list' = stash_pop(st, applies)
           /\ popped' = IF stash_pop(st, applies) # st THEN st[1] ELSE ""
           /\ tree' = IF stash_pop(st, applies) # st THEN "modified"
                      ELSE IF own THEN "clean" ELSE tree
           /\ branches' = branches \cup {branch_name}
           /\ task_branches' = Append(task_branches, branch_name)
  /\ UNCHANGED <<envvars, parsevars, totalsvars, slugvars, foldervars, streamvars,
                 seqvars, prd, tasks, pc, exit_code, iteration, batch_start, batch_num,
                 idx, slot, worktrees, offBase, tmpfiles, WORKTREE_BASE,
                 completed_branches, batches, marks, flips>>

\* between two calls the agent and the user work on the files (run_single_task
\* lines 977-1010)
EditTree ==
  /\ task_branches # <<>>
  /\ \E tr \in Trees \ {tree} : tree' = tr
  /\ UNCHANGED <<envvars, parsevars, runvars, totalsvars, slugvars, foldervars,
                 streamvars, stash_list, stash_before, pushed, popped, task_branches>>

\* ================================================================== claims
Terminal == {"done", "failed"}
NonTerminal == {"waiting", "setting up", "running"}
Launched == { n \in 1..MaxTasks : slot[n].status # "none" }
AllAre(seq, kind) == \A i \in 1..Len(seq) : seq[i] = kind

RECURSIVE Concat(_)
Concat(ss) == IF ss = <<>> THEN <<>> ELSE Head(ss) \o Concat(Tail(ss))

CeilDiv(a, b) == (a + b - 1) \div b

\* C1: for N >= 1 pending tasks, limit P >= 1 and no iteration cap, a parallel
\* run has launched, when it ends, exactly ceil(N/P) batches; all but the last
\* hold P tasks, the last holds N mod P (P when P divides N), and the batches
\* concatenated in launch order are the pending tasks in their original order.
C1_BatchPlan ==
  (PARALLEL /\ pc = "exited" /\ tasks # <<>> /\ MAX_ITERATIONS = 0 /\ MAX_PARALLEL >= 1) =>
    LET N == Len(tasks)
        P == MAX_PARALLEL
        B == Len(batches)
    IN  /\ B = CeilDiv(N, P)
        /\ \A b \in 1..(B - 1) : Len(batches[b]) = P
        /\ B >= 1 => Len(batches[B]) = (IF N % P = 0 THEN P ELSE N % P)
        /\ Concat(batches) = tasks

\* the same statement for the shells that do not apply errexit to (( ))
C1_BatchPlanWithoutErrexit == errexitCompound \/ C1_BatchPlan

C1_ThreeByTwoShape ==
  /\ pc = "exited" /\ ~errexitCompound /\ PARALLEL /\ MAX_ITERATIONS = 0
  /\ Len(tasks) = 3 /\ MAX_PARALLEL = 2
  /\ Len(batches) = 2 /\ Len(batches[1]) = 2 /\ Len(batches[2]) = 1

\* C2: in every state the number of agent runs whose status is waiting,
\* setting up or running is at most MAX_PARALLEL.
C2_BoundedConcurrency ==
  Cardinality({ n \in 1..MaxTasks : slot[n].status \in NonTerminal }) <= MAX_PARALLEL

C2_LimitReached ==
  /\ Len(tasks) > MAX_PARALLEL /\ MAX_PARALLEL = 2
  /\ Cardinality({ n \in 1..MaxTasks : slot[n].status \in {"setting up", "running"} }) = 2

C4_FailedStaysPending ==
  PARALLEL => \A n \in 1..MaxTasks : slot[n].status = "failed" => ~prd[n].completed

\* C5: a task run whose raw output was empty on each of its MAX_RETRIES
\* attempts ends failed (parallel: status failed; sequential: run_single_task
\* returns 1) and the orchestrator does not mark its task complete.
C5_EmptyOutputFails ==
  /\ \A n \in 1..MaxTasks :
       (slot[n].proc = "cleanup" /\ Len(slot[n].attempts) = MAX_RETRIES
          /\ AllAre(slot[n].attempts, "empty"))
       => slot[n].status = "failed"
  /\ \A n \in 1..MaxTasks : (PARALLEL /\ slot[n].status = "failed") => n \notin marks
  /\ (~PARALLEL /\ pc \in {"main", "exited"} /\ iteration >= 1 /\ current_task # <<>>
        /\ Len(attempts) = MAX_RETRIES /\ AllAre(attempts, "empty"))
     => (result_code = 1 /\ iteration \notin marks)

C5_EmptyEveryAttempt ==
  \E n \in 1..MaxTasks :
     /\ slot[n].proc = "cleanup" /\ slot[n].status = "failed"
     /\ MAX_RETRIES = 2 /\ slot[n].attempts = <<"empty", "empty">>

\* C6: a task run whose output held an error record on every attempt is never
\* reported done (parallel) or successful (sequential) and its task is never
\* marked complete by the orchestrator.
C6_ErrorRecordFails ==
  /\ \A n \in 1..MaxTasks :
       (slot[n].attempts # <<>> /\ AllAre(slot[n].attempts, "error"))
       => (slot[n].status # "done" /\ n \notin marks)
  /\ (~PARALLEL /\ pc \in {"main", "exited"} /\ attempts # <<>>
        /\ AllAre(attempts, "error"))
     => (result_code = 1 /\ iteration \notin marks)

\* C7: the status of an agent run only moves forward along waiting, setting
\* up, running, {done | failed}, and a done or failed status never changes.
Rank(st) ==
  CASE st = "none" -> 0
    [] st = "waiting" -> 1
    [] st = "setting up" -> 2
    [] st = "running" -> 3
    [] st \in Terminal -> 4

StatusForward ==
  \A n \in 1..MaxTasks :
     /\ Rank(slot'[n].status) >= Rank(slot[n].status)
     /\ slot[n].status \in Terminal => slot'[n].status = slot[n].status

C7_StatusForwardOnly == [][StatusForward]_vars

C7_BothTerminalStatuses ==
  \E m, n \in 1..MaxTasks :
     /\ slot[m].status = "done" /\ slot[m].proc = "exited"
     /\ slot[n].status = "failed" /\ slot[n].proc = "exited"

\* C8: the scheduler leaves the poll loop of a batch only when every slot of
\* the batch is done or failed, and while a later batch is being launched or
\* run every slot of the earlier batches is done or failed.
C8_BatchesInOrder ==
  /\ pc \in {"wait", "results", "batch_end"} =>
       \A n \in BatchSlots : slot[n].status \in Terminal
  /\ \A n \in Launched : n <= batch_start => slot[n].status \in Terminal

C8_SecondBatchLaunched ==
  /\ batch_num = 2 /\ batch_start >= 1
  /\ \E n \in BatchSlots : slot[n].status = "running"

\* C9: no two agent runs of a parallel run have the same worktree directory
\* or the same branch name, whatever the task titles.
C9_DisjointWorkspaces ==
  \A m, n \in 1..Len(tasks) :
     m # n =>
       /\ WorktreeDir(m) # WorktreeDir(n)
       /\ BranchName(tasks[m], m) # BranchName(tasks[n], n)
       /\ (slot[m].branch # <<>> /\ slot[n].branch # <<>>) => slot[m].branch # slot[n].branch

C9_TwoLiveSameSlug ==
  /\ slot[1].status = "running" /\ slot[2].status = "running"
  /\ slugify(slot[1].task) = slugify(slot[2].task)
  /\ {1, 2} \subseteq worktrees

\* C10: when a step of worktree creation has failed (the forced branch reset
\* or the worktree registration), the run is failed and the agent is never
\* invoked for it.
C10_CreateFailureFailsRun ==
  \A n \in 1..MaxTasks :
     (slot[n].status \notin {"none", "waiting", "setting up"}
        /\ (~slot[n].resetOk \/ ~slot[n].added))
     => (slot[n].status = "failed" /\ slot[n].attempts = <<>> /\ slot[n].proc = "exited")

\* C11: after create_agent_worktree has been called twice in succession for
\* the same agent number and task, both calls have succeeded, the slot's
\* directory is a registered worktree (one, the set has no duplicates) and the
\* branch points at the tip of the base branch.
C11_CreateTwiceIdempotent ==
  \A n \in 1..MaxTasks :
     (pc = "create" /\ slot[n].proc = "create") =>
       /\ idx >= 1 => (slot[n].added /\ n \in worktrees)
       /\ idx = 2 => (slot[n].branch \in branches /\ slot[n].branch \notin offBase)

\* the same for a branch that no earlier run left checked out
C11_CreateTwiceOnFreshBranch ==
  \A n \in 1..MaxTasks :
     (pc = "create" /\ slot[n].proc = "create" /\ n \notin stale) =>
       /\ idx >= 1 => (slot[n].added /\ n \in worktrees)
       /\ idx = 2 => (slot[n].branch \in branches /\ slot[n].branch \notin offBase
                      /\ ~slot[n].resetOk)

\* C12: the release of a slot's worktree (cleanup_agent_worktree) removes the
\* registration of that slot's directory and nothing else: every other
\* registration stays, the set of branches is unchanged and still holds the
\* slot's branch, whether the run ended done or failed.
ReleaseFrame ==
  \A n \in 1..MaxTasks :
     (slot[n].proc = "cleanup" /\ slot'[n].proc = "exited") =>
       /\ slot[n].status \in Terminal
       /\ worktrees' = worktrees \ {n}
       /\ branches' = branches
       /\ slot[n].branch \in branches'

C12_ReleaseKeepsBranch == [][ReleaseFrame]_vars

C12_ReleasedDoneAndFailed ==
  \E m, n \in 1..MaxTasks :
     /\ slot[m].status = "done" /\ slot[m].proc = "exited" /\ slot[m].added
     /\ slot[n].status = "failed" /\ slot[n].proc = "exited" /\ slot[n].added
     /\ {m, n} \cap worktrees = {}
     /\ {slot[m].branch, slot[n].branch} \subseteq branches

\* C13: with --dry-run no agent is ever invoked and no retry is counted, in
\* sequential and in parallel mode, and a sequential task run returns 0.
C13_DryRunInvokesNothing ==
  DRY_RUN =>
    /\ attempts = <<>> /\ retry_count = 0
    /\ \A n \in 1..MaxTasks : slot[n].attempts = <<>> /\ slot[n].retry = 0
    /\ (~PARALLEL /\ iteration >= 1 /\ current_task # <<>>) => result_code = 0

\* the sequential half of C13
C13_SequentialDryRunInvokesNothing ==
  (DRY_RUN /\ ~PARALLEL) =>
    /\ attempts = <<>> /\ retry_count = 0 /\ pc # "seq_loop" /\ tmpfile = ""
    /\ (iteration >= 1 /\ current_task # <<>>) => result_code = 0

\* C14: a run that no signal ends, and whose agent invocations all return,
\* eventually ends normally: exit status 0 after the last task or at the
\* iteration cap (status 2 of a parallel run that found no pending task is
\* counted as normal too), whatever MAX_ITERATIONS, MAX_RETRIES, MAX_PARALLEL
\* and the outcomes of the invocations are.  A sequential run that has made
\* MaxSeqIter iterations is outside the model and counts as ended.
NormalEnd == pc = "exited" /\ exit_code \in {0, 2}

AtModelCap == ~PARALLEL /\ pc = "main" /\ iteration = MaxSeqIter

C14_RunEndsNormally == <>(NormalEnd \/ AtModelCap)

\* the safety half of C14: a run never ends with the error status 1
C14_NoAbnormalEnd == pc = "exited" => exit_code # 1

\* a sequential run with no iteration cap starts the task it has just failed
\* again: the loop of main has no exit for a task that fails every time
C14_FailedTaskIsNextAgain ==
  (~PARALLEL /\ MAX_ITERATIONS = 0 /\ pc = "main" /\ iteration >= 1 /\ result_code = 1)
    => get_next_task(PRD_SOURCE, prd) = current_task

\* C15: in a sequential run, an invocation whose final response is the
\* completion marker ends the run with status 0 on that iteration, whatever
\* the task source still holds; and run_single_task reports "all done" for a
\* task only when the final response of its last invocation is the marker.
LastAttempt == IF attempts = <<>> THEN "none" ELSE attempts[Len(attempts)]

C15_MarkerInFinalResponse ==
  ~PARALLEL =>
    /\ (LastAttempt = "complete" /\ pc # "seq_loop")
          => (result_code = 2 /\ pc = "exited" /\ exit_code = 0)
    /\ (result_code = 2 /\ current_task # <<>> /\ pc # "seq_loop")
          => LastAttempt = "complete"

\* the first half of C15
C15_FinalResponseMarkerEndsRun ==
  (~PARALLEL /\ LastAttempt = "complete" /\ pc # "seq_loop")
    => (result_code = 2 /\ pc = "exited" /\ exit_code = 0)

C15_EndedWithTasksPending ==
  /\ ~PARALLEL /\ LastAttempt = "complete" /\ pc = "exited" /\ exit_code = 0
  /\ PendingLines(prd) # {}

\* C16: a parallel run that finds no pending task reports it (return 2) and
\* launches nothing: no agent run, no worktree base and no worktree, no status
\* file, no change of the task source, and iteration stays 0.
C16_NoTasksLaunchesNothing ==
  (PARALLEL /\ pc # "main" /\ PendingLines(prd) = {} /\ marks = {}) =>
    /\ pc = "exited" /\ exit_code = 2
    /\ tasks = <<>> /\ batches = <<>> /\ Launched = {}
    /\ WORKTREE_BASE = "" /\ worktrees = {} /\ tmpfiles = {}
    /\ \A i \in DOMAIN flips : flips[i] = 0
    /\ iteration = 0

C16_AllTasksAlreadyDone ==
  /\ PARALLEL /\ pc = "exited" /\ exit_code = 2
  /\ Len(prd) = 2 /\ \A i \in DOMAIN prd : prd[i].completed

\* C17: a step in which a slot becomes failed (worktree creation failed or
\* retries exhausted) changes nothing of any other slot (status, output file
\* with tokens and branch, process) nor of the task source; the bookkeeping of
\* a failed slot changes neither the task source nor the branch list; and a
\* parallel run without iteration cap that ends with status 0 has launched
\* every task, whatever failed.
SiblingFrame ==
  /\ \A n \in 1..MaxTasks :
       (slot[n].status # "failed" /\ slot'[n].status = "failed") =>
         /\ \A m \in 1..MaxTasks \ {n} : slot'[m] = slot[m]
         /\ prd' = prd /\ marks' = marks /\ completed_branches' = completed_branches
         /\ pc' = pc
  /\ (pc = "results" /\ idx < batch_size /\ slot[batch_start + idx + 1].status = "failed") =>
         /\ prd' = prd /\ marks' = marks /\ completed_branches' = completed_branches
         /\ slot' = slot
         /\ pc' \in {"results", "batch_end"}

AllLaunchedAtEnd ==
  (PARALLEL /\ pc = "exited" /\ exit_code = 0 /\ MAX_ITERATIONS = 0)
    => Launched = 1..Len(tasks)

C17_FailureLeavesSiblings == [][SiblingFrame]_vars /\ []AllLaunchedAtEnd

C17_FailedBesideDoneThenNextBatch ==
  /\ MAX_PARALLEL = 2 /\ Len(tasks) = 3
  /\ slot[1].status = "failed" /\ slot[1].added
  /\ slot[2].status = "done" /\ 2 \in marks /\ prd[2].completed
  /\ slot[3].status = "running"

\* C18: a run that a signal ended has exit status 130, and after its cleanup
\* no directory under the run's worktree base is a registered worktree, every
\* branch a slot created is still there, and every task line that was marked
\* complete is still complete.
C18_InterruptCleansWorktrees ==
  exit_code = 130 =>
    /\ pc = "exited"
    /\ worktrees = {}
    /\ \A n \in 1..MaxTasks : slot[n].branch # <<>> => slot[n].branch \in branches
    /\ \A i \in DOMAIN flips : flips[i] >= 1 => prd[i].completed

\* C18 for a run in which no slot was creating its worktree when the signal
\* came
C18_InterruptOutsideCreate ==
  (exit_code = 130 /\ \A n \in 1..MaxTasks : slot[n].proc \notin {"orphan", "orphaned"})
    => worktrees = {}

C18_BranchesAndMarksSurvive ==
  exit_code = 130 =>
    /\ pc = "exited"
    /\ \A n \in 1..MaxTasks : slot[n].branch # <<>> => slot[n].branch \in branches
    /\ \A i \in DOMAIN flips : flips[i] >= 1 => prd[i].completed

\* C19: after the cleanup of an interrupted run no temp file of the run is
\* left: not the sequential output file, not a slot's status, output and log
\* files, not an agent's own output file.
C19_InterruptRemovesTempFiles ==
  exit_code = 130 =>
    /\ tmpfile = ""
    /\ tmpfiles = {}
    /\ \A n \in 1..MaxTasks : ~slot[n].tmpfile

\* the sequential half of C19
C19_SequentialTempFileRemoved ==
  (exit_code = 130 /\ ~PARALLEL) => (tmpfile = "" /\ tmpfiles = {})

\* C20: with MAX_ITERATIONS = N > 0 a run starts at most N task runs:
\* iterations of the sequential loop, agent runs of the parallel scheduler.
C20_AtMostMaxIterationsRuns ==
  MAX_ITERATIONS > 0 =>
    /\ iteration <= MAX_ITERATIONS
    /\ Cardinality(Launched) <= MAX_ITERATIONS

\* the sequential half of C20
C20_SequentialCap ==
  (~PARALLEL /\ MAX_ITERATIONS > 0) => iteration <= MAX_ITERATIONS

\* what the parallel scheduler keeps to: the cap is tested between batches
C20_ParallelCapPerBatch ==
  (PARALLEL /\ MAX_ITERATIONS > 0) =>
    Cardinality(Launched) < MAX_ITERATIONS + MAX_PARALLEL

\* ------------------------------------------------------- C21: detectStep
StepTools == {"write", "edit", "read", "glob", "grep"}

\* the line is a record whose tool-name field is one of T
HasTool(l, T) == l.json /\ l.tool \in T

\* the text of the line holds no keyword and no tool name of a category
MatchesNone(l) == l.kw = {} /\ l.tool \notin StepTools

\* what detectStep gave for line l: the value detectStepFromOutput returned,
\* the step monitor_progress shows for an output file that holds l alone
\* ("Thinking", the step on display before, is no change)
StepFor(l, step, nochange) ==
  /\ HasTool(l, {"write", "edit"}) => step = "Implementing"
  /\ HasTool(l, {"read", "glob", "grep"}) => step = "Reading code"
  /\ MatchesNone(l) => step = nochange

\* C21: detectStep gives "Implementing" for every line whose tool-name field
\* is write or edit, "Reading code" for every line whose tool-name field is
\* read, glob or grep, and no change for every line that matches none of the
\* categories, lines that are no JSON included.
C21_DetectStepByToolName ==
  /\ op = "detectStepFromOutput" => StepFor(raw[seen], detected, "null")
  /\ (op = "monitor_progress" /\ seen = 1) => StepFor(raw[1], current_step, "Thinking")

StepForBelowKeywords(l, step, nochange) ==
  /\ (HasTool(l, {"write", "edit"}) /\ l.kw = {}) => step = "Implementing"
  /\ (HasTool(l, {"read", "glob", "grep"}) /\ l.kw = {}) => step = "Reading code"
  /\ MatchesNone(l) => step = nochange

\* C21 as it holds: the tool name decides only for a line whose text holds no
\* keyword of the categories that are tested before the tool names.
C21_DetectStepByToolNameBelowKeywords ==
  /\ op = "detectStepFromOutput" => StepForBelowKeywords(raw[seen], detected, "null")
  /\ (op = "monitor_progress" /\ seen = 1) =>
       StepForBelowKeywords(raw[1], current_step, "Thinking")

\* a write record classified, then a line that is no record: no change
C21_WriteThenUnrecognisedLine ==
  /\ op = "detectStepFromOutput" /\ seen = 2
  /\ raw[1] = ToolRec("write", {}) /\ raw[2] = Noise("", "", {})
  /\ detected = "null"

\* ------------------------------------------------------ C22: parseResult
\* positions of the records of type T
RecordsOfType(output, T) ==
  { i \in 1..Len(output) : output[i].json /\ output[i].type = T }

\* the record that the claim lets decide: the last record of type result,
\* when it has a text that is not empty and a usage
DecidingRecord(output) == output[Last(RecordsOfType(output, "result"))]
HasDecidingRecord(output) ==
  /\ RecordsOfType(output, "result") # {}
  /\ DecidingRecord(output).result \notin {Absent, <<>>}
  /\ DecidingRecord(output).inTok # NoTokens
  /\ DecidingRecord(output).outTok # NoTokens

FieldsOf(l) == [response |-> l.result, inputTokens |-> l.inTok, outputTokens |-> l.outTok]

\* C22: for a raw output with one record of type result, with text X and
\* usage i / o, whatever other lines surround it, parseResult gives X, i and
\* o; of several such records the last one decides all three fields.
C22_ResultRecordDecides ==
  (op = "parseStreamJsonResult" \/ (op = "parse_ai_result" /\ ~USE_OPENCODE)) =>
    (HasDecidingRecord(raw) => res = FieldsOf(DecidingRecord(raw)))

\* what holds: C22 for parseStreamJsonResult of base.ts
C22_StreamJsonResultRecordDecides ==
  op = "parseStreamJsonResult" =>
    (HasDecidingRecord(raw) => res = FieldsOf(DecidingRecord(raw)))

\* base.ts, two result records: the last one decided
C22_LastOfTwoResultRecords ==
  /\ op = "parseStreamJsonResult"
  /\ raw = <<ResultRec(<<"X">>, 5, 7), ResultRec(<<"Y">>, 1, 2)>>
  /\ res = [response |-> <<"Y">>, inputTokens |-> 1, outputTokens |-> 2]

\* ------------------------------------------------- C23: the sentinel text
TaskCompleted == <<"Task completed">>

\* the raw output has no terminal text: no result record or one without a
\* text (single terminal record), no text record with a text (fragments)
NoTerminalText(output, opencode) ==
  IF opencode
  THEN \A i \in RecordsOfType(output, "text") : output[i].text \in {Absent, <<>>}
  ELSE \/ RecordsOfType(output, "result") = {}
       \/ DecidingRecord(output).result \in {Absent, <<>>}

\* C23: when the raw output has no terminal text, parseResult gives the text
\* "Task completed", and it never gives an empty text, for both protocols.
C23_SentinelWhenNoText ==
  /\ op = "parseStreamJsonResult" =>
       /\ res.response # <<>>
       /\ NoTerminalText(raw, FALSE) => res.response = TaskCompleted
  /\ op = "parse_ai_result" =>
       /\ res.response # <<>>
       /\ NoTerminalText(raw, USE_OPENCODE) => res.response = TaskCompleted

\* what holds: C23 for base.ts and for the OpenCode branch of parse_ai_result,
\* on outputs of records
C23_SentinelOutsideClaudeBranch ==
  /\ op = "parseStreamJsonResult" =>
       /\ res.response # <<>>
       /\ NoTerminalText(raw, FALSE) => res.response = TaskCompleted
  /\ (op = "parse_ai_result" /\ USE_OPENCODE) =>
       /\ res.response # <<>>
       /\ (NoTerminalText(raw, TRUE) /\ \A i \in 1..Len(raw) : raw[i].json) =>
            res.response = TaskCompleted

\* ------------------------------------------- C24: lines that do not parse
Records(output) == SelectSeq(output, LAMBDA l : l.json)

\* C24: lines that are no structured record are skipped: the result of
\* parseResult and of detectError on a raw output is the one on its records
\* alone, and detectStep gives no change for such a line.
C24_UnparseableLinesSkipped ==
  /\ op = "parseStreamJsonResult" => res = parseStreamJsonResult(Records(raw))
  /\ op = "checkForErrors" => err = checkForErrors(Records(raw))
  /\ op = "parse_ai_result" => res = parse_ai_result(Records(raw), USE_OPENCODE)
  /\ op = "check_for_errors" =>
       \E sigpipe \in BOOLEAN :
          /\ sigpipe => MaySigpipe(Records(raw))
          /\ err = check_for_errors(Records(raw), sigpipe)
  /\ (op = "detectStepFromOutput" /\ ~raw[seen].json) => detected = "null"

\* what holds: C24 for the three functions of base.ts
C24_BaseTsSkipsUnparseableLines ==
  /\ op = "parseStreamJsonResult" => res = parseStreamJsonResult(Records(raw))
  /\ op = "checkForErrors" => err = checkForErrors(Records(raw))
  /\ (op = "detectStepFromOutput" /\ ~raw[seen].json) => detected = "null"

\* ------------------------------------------------------ C25: detectError
\* the message of an error record: error.message, else message
MessageOf(l) == Alt(l.emsg, l.msg)

\* C25: detectError reports an error exactly when some record of the raw
\* output has type error, and then gives the message of the first one.
C25_FirstErrorRecordReported ==
  op \in {"checkForErrors", "check_for_errors"} =>
    IF RecordsOfType(raw, "error") = {}
    THEN ~err.found
    ELSE /\ err.found
         /\ err.message = MessageOf(raw[First(RecordsOfType(raw, "error"))])

\* C25 for raw outputs that hold records only, none with a nested type: what
\* is left to go wrong is the pipe of line 908
C25_FirstErrorRecordReportedOnRecords ==
  (\A i \in 1..Len(raw) : raw[i].json /\ raw[i].quoted = "") =>
     C25_FirstErrorRecordReported

\* what holds: C25 for checkForErrors of base.ts
C25_CheckForErrorsTsReportsFirst ==
  op = "checkForErrors" =>
    IF RecordsOfType(raw, "error") = {}
    THEN ~err.found
    ELSE /\ err.found
         /\ err.message = MessageOf(raw[First(RecordsOfType(raw, "error"))])

\* ------------------------------------------------ C26: order of the tests
Categories ==
  {"Committing", "Staging", "Updating tracker", "Linting", "Testing", "Writing tests",
   "Implementing", "Reading code", "Thinking"}

\* monitor_progress shows a tracker file as "Logging" (progress.txt) or as
\* "Updating PRD" (PRD.md, tasks.yaml)
Category(step) == IF step \in {"Logging", "Updating PRD"} THEN "Updating tracker" ELSE step

\* the first match in the order commit, staging, tracker file, lint, test
\* runner, test-file path, write/edit, read/glob/grep
FirstMatch(l, nochange) ==
  IF "commit" \in l.kw THEN "Committing"
  ELSE IF "add" \in l.kw THEN "Staging"
  ELSE IF l.kw \cap {"progress", "prd"} # {} THEN "Updating tracker"
  ELSE IF "lint" \in l.kw THEN "Linting"
  ELSE IF "testrun" \in l.kw THEN "Testing"
  ELSE IF "testfile" \in l.kw THEN "Writing tests"
  ELSE IF l.tool \in {"write", "edit"} THEN "Implementing"
  ELSE IF l.tool \in {"read", "glob", "grep"} THEN "Reading code"
  ELSE nochange

\* C26: detectStep classifies a record by the first match in that order, and
\* its result is one of the nine categories or no change.
C26_FirstMatchInOrder ==
  /\ (op = "detectStepFromOutput" /\ raw[seen].json) =>
       /\ detected = FirstMatch(raw[seen], "null")
       /\ detected \in Categories \cup {"null"}
  /\ (op = "monitor_progress" /\ seen = 1 /\ raw[1].json) =>
       /\ Category(current_step) = FirstMatch(raw[1], "Thinking")
       /\ Category(current_step) \in Categories

\* what holds: detectStepFromOutput keeps to the order for the records that
\* name no tracker file, monitor_progress for all records
C26_FirstMatchApartFromTracker ==
  /\ (op = "detectStepFromOutput" /\ raw[seen].json
        /\ raw[seen].kw \cap {"progress", "prd"} = {}) =>
       /\ detected = FirstMatch(raw[seen], "null")
       /\ detected \in Categories \cup {"null"}
  /\ (op = "monitor_progress" /\ seen = 1 /\ raw[1].json) =>
       /\ Category(current_step) = FirstMatch(raw[1], "Thinking")
       /\ Category(current_step) \in Categories

\* ------------------------------------------------- C27: the retry budget
\* attempts that the retry loop does not accept: run_parallel_agent retries
\* an empty output, run_single_task an empty output or an error record
FailedKinds(parallel) == IF parallel THEN {"empty"} ELSE {"empty", "error"}

\* at most MAX_RETRIES invocations, and none after an accepted attempt
WithinBudget(seq, parallel) ==
  /\ Len(seq) <= MAX_RETRIES
  /\ \A i \in 1..(Len(seq) - 1) : seq[i] \in FailedKinds(parallel)

\* exactly MAX_RETRIES attempts, all of them failed
Exhausted(seq, parallel) ==
  /\ Len(seq) = MAX_RETRIES
  /\ \A i \in 1..Len(seq) : seq[i] \in FailedKinds(parallel)

RetryBudget ==
  /\ \A n \in 1..MaxTasks : WithinBudget(slot[n].attempts, TRUE)
  /\ WithinBudget(attempts, FALSE)

\* a step that reports a task run failed does so after exactly MAX_RETRIES
\* failed attempts
FailedAfterBudget ==
  /\ \A n \in 1..MaxTasks :
       (slot[n].status # "failed" /\ slot'[n].status = "failed") =>
          Exhausted(slot[n].attempts, TRUE)
  /\ (pc = "seq_loop" /\ pc' # "seq_loop" /\ result_code' = 1) =>
       Exhausted(attempts', FALSE)

\* C27: a task run invokes the agent at most MAX_RETRIES times, never again
\* after an attempt it accepted, and is reported failed only after exactly
\* MAX_RETRIES failed attempts.
C27_RetryBudgetKept == []RetryBudget /\ [][FailedAfterBudget]_vars

\* the same for the runs that got as far as the retry loop: a run whose
\* worktree could not be created is reported failed before any attempt
FailedAfterBudgetOnceSetUp ==
  /\ \A n \in 1..MaxTasks :
       (slot[n].status = "running" /\ slot'[n].status = "failed") =>
          Exhausted(slot[n].attempts, TRUE)
  /\ (pc = "seq_loop" /\ pc' # "seq_loop" /\ result_code' = 1) =>
       Exhausted(attempts', FALSE)

\* C27 as it holds: reported failed from the retry loop only after exactly
\* MAX_RETRIES failed attempts.
C27_RetryBudgetKeptOnceSetUp == []RetryBudget /\ [][FailedAfterBudgetOnceSetUp]_vars

\* an agent run reported failed after two empty outputs
C27_FailedAfterTwoAttempts ==
  /\ MAX_RETRIES = 2
  /\ \E n \in 1..MaxTasks :
       /\ slot[n].status = "failed" /\ slot[n].proc = "cleanup"
       /\ slot[n].attempts = <<"empty", "empty">>

\* a sequential run that returned 1 after two failed attempts
C27_SequentialFailedAfterTwoAttempts ==
  /\ MAX_RETRIES = 2 /\ ~PARALLEL /\ pc = "main" /\ result_code = 1
  /\ attempts = <<"empty", "error">>

\* ---------------------------------- C28: after a task that used its retries
\* the sequential loop starts its next iteration after a failed one
StartsAfterFailure ==
  /\ ~PARALLEL /\ pc = "main" /\ iteration >= 1 /\ result_code = 1
  /\ iteration' = iteration + 1

\* a pending task other than the present one exists
OtherPending ==
  \E i \in PendingLines(prd) : TaskString(PRD_SOURCE, prd, i) # current_task

\* C28: in sequential mode, after task T used up its retries the run goes
\* on, and the next iteration works on a pending task other than T when
\* there is one.
C28_NextIterationTakesAnotherTask ==
  [][(StartsAfterFailure /\ OtherPending) =>
        (pc' = "seq_loop" /\ current_task' # current_task)]_vars

\* what holds: the run goes on, with the first pending task, which is T
C28_NextIterationTakesFirstPending ==
  [][StartsAfterFailure => current_task' = get_next_task(PRD_SOURCE, prd)]_vars

\* ------------------------------------ C29: success marks the task complete
\* run_single_task returns 0 for the task of this iteration
ReturnsSuccess == ~PARALLEL /\ pc = "seq_loop" /\ pc' # "seq_loop" /\ result_code' = 0

\* C29: in sequential mode, for every kind of task source, when
\* run_single_task ends an iteration with success for task T, T is marked
\* complete in the task source, so that the next task is not T.
C29_SuccessMarksTask ==
  [][ReturnsSuccess => prd'[FirstPending(prd)].completed]_vars

\* what holds: the orchestrator marks the task of a GitHub source
C29_SuccessMarksGithubTask ==
  [][(ReturnsSuccess /\ PRD_SOURCE = "github") => prd'[FirstPending(prd)].completed]_vars

\* --------------------------------------------- C30: polling and scheduling
\* every agent process of the batch has ended
BatchProcessesEnded == \A n \in BatchSlots : ~Alive(slot[n])

\* C30: what the poll loop reads decides nothing: once the agent processes
\* of the batch have ended the scheduler can leave the loop, whatever the
\* status markers say.
C30_PollingNeverGates ==
  (PARALLEL /\ pc = "poll" /\ BatchProcessesEnded) => all_done

\* what holds with a delay that sleep accepts: an agent ends only after it
\* wrote done or failed
C30_EndedAgentsAreTerminal ==
  (RETRY_DELAY = "number" /\ PARALLEL /\ pc = "poll" /\ BatchProcessesEnded) => all_done

\* ---- C31
DoneSlots == { k \in DOMAIN produced : produced[k].status = "done" }

RECURSIVE SumOver(_, _)
SumOver(S, f) ==
  IF S = {} THEN 0
  ELSE LET k == CHOOSE x \in S : TRUE IN f[k] + SumOver(S \ {k}, f)

RECURSIVE BranchesOfDone(_)
BranchesOfDone(k) ==
  IF k > Len(produced) THEN <<>>
  ELSE (IF k \in DoneSlots THEN <<BranchName(<<"A">>, k)>> ELSE <<>>)
         \o BranchesOfDone(k + 1)

BatchCollected == produced # <<>> /\ results_j = Len(produced)

\* C31: after the results loop of a batch, the total input tokens, the total
\* output tokens and the total cost have each grown by the sum of what the
\* batch's "done" slots produced, "failed" slots add nothing, and the branch
\* of every "done" slot is in the list of produced branches.
C31_TotalsGrowByDoneSlots ==
  BatchCollected =>
    /\ total_input_tokens =
         totals_before.input + SumOver(DoneSlots, [k \in DoneSlots |-> produced[k].inTok])
    /\ total_output_tokens =
         totals_before.output + SumOver(DoneSlots, [k \in DoneSlots |-> produced[k].outTok])
    /\ total_actual_cost =
         totals_before.cost + SumOver(DoneSlots, [k \in DoneSlots |-> produced[k].cost])
    /\ completed_branches = BranchesOfDone(1)

\* the same without the cost: tokens and branches are collected as stated
C31_TokensAndBranchesGrowByDoneSlots ==
  BatchCollected =>
    /\ total_input_tokens =
         totals_before.input + SumOver(DoneSlots, [k \in DoneSlots |-> produced[k].inTok])
    /\ total_output_tokens =
         totals_before.output + SumOver(DoneSlots, [k \in DoneSlots |-> produced[k].outTok])
    /\ completed_branches = BranchesOfDone(1)

\* a collected batch with a done slot that has tokens and a failed slot
C31_DoneAndFailedCollected ==
  /\ BatchCollected
  /\ \E k \in DoneSlots : produced[k].inTok > 0
  /\ DoneSlots # DOMAIN produced

\* ---- C32
SlugChars(s) == \A i \in 1..Len(s) : IsAlnum(s[i]) \/ s[i] = "-"

NoDoubleDash(s) == \A i \in 1..(Len(s) - 1) : ~(s[i] = "-" /\ s[i + 1] = "-")

Trimmed(s) == s = <<>> \/ (s[1] # "-" /\ s[Len(s)] # "-")

\* C32: slugify maps every title to a lower-case string of [a-z0-9] and '-'
\* with no two '-' in a row, no '-' at either end and at most 50 characters,
\* and slugify of a slug is that slug.
C32_SlugWellFormedAndIdempotent ==
  /\ slug # Unset =>
       /\ SlugChars(slug)
       /\ NoDoubleDash(slug)
       /\ Trimmed(slug)
       /\ Len(slug) <= SlugCap
  /\ reslug # Unset => reslug = slug

\* all of it but the trailing end and the idempotence
C32_SlugWellFormedButForTheEnd ==
  slug # Unset =>
    /\ SlugChars(slug)
    /\ NoDoubleDash(slug)
    /\ (slug # <<>> => slug[1] # "-")
    /\ Len(slug) <= SlugCap

\* a title whose slug is cut
C32_CutSlug == slug # Unset /\ Len(slug) = SlugCap /\ Len(title) > SlugCap

\* ---- C33
\* C33: markComplete is idempotent for every task source: a second call
\* with the same id leaves the source as the first call left it (same
\* files, so same pending tasks, countRemaining and countCompleted).
C33_MarkCompleteIdempotent ==
  [][(last_id # Unset /\ last_id' = last_id) => (folder' = folder /\ prd' = prd)]_vars

\* a pending task of the second file marked twice
C33_FolderTaskMarkedTwice ==
  /\ marked_twice
  /\ last_id = createTaskId(FileNames[2], 1)
  /\ FileNames[2] \in DOMAIN folder
  /\ SplitLines(folder[FileNames[2]])[1] = <<Checked, "a">>

\* a task of the script's source marked twice
C33_ShTaskMarkedTwice ==
  /\ marked_twice
  /\ prd # <<>>
  /\ \E i \in DOMAIN prd : prd[i].completed /\ TaskString(PRD_SOURCE, prd, i) = last_id

\* ---- C36
\* C36: in every state of the files countRemaining() is the number of tasks
\* getAllTasks() returns, and getNextTask() is the first of them, or none
\* exactly when there is none.
C36_CountIsListLength ==
  folder # <<>> =>
    /\ countRemaining(folder, markdownFiles) = Len(getAllTasks(folder, markdownFiles))
    /\ IF getAllTasks(folder, markdownFiles) = <<>>
       THEN getNextTask(folder, markdownFiles) = NoTask
       ELSE getNextTask(folder, markdownFiles) = getAllTasks(folder, markdownFiles)[1]

\* the list is never longer than the count, and getNextTask is its head
C36_ListWithinCount ==
  folder # <<>> =>
    /\ Len(getAllTasks(folder, markdownFiles)) <= countRemaining(folder, markdownFiles)
    /\ IF getAllTasks(folder, markdownFiles) = <<>>
       THEN getNextTask(folder, markdownFiles) = NoTask
       ELSE getNextTask(folder, markdownFiles) = getAllTasks(folder, markdownFiles)[1]

\* ---- C37
PendingIds(fs, files) ==
  { getAllTasks(fs, files)[i].id : i \in 1..Len(getAllTasks(fs, files)) }

Without(ts, id) == SelectSeq(ts, LAMBDA t : t.id # id)

\* the lines of every file but the one line the id addresses
OtherLinesKept(old, new, id) ==
  /\ DOMAIN new = DOMAIN old
  /\ \A name \in DOMAIN old :
       /\ Len(SplitLines(new[name])) = Len(SplitLines(old[name]))
       /\ \A i \in 1..Len(SplitLines(old[name])) :
            createTaskId(name, i) # id => SplitLines(new[name])[i] = SplitLines(old[name])[i]

\* C37: markComplete with the id of a pending task changes only the line it
\* addresses: the task leaves the list, countRemaining goes down by one,
\* countCompleted up by one, the other tasks keep id, title and order; with
\* an id whose line is out of range or not a pending task, the list and
\* both counts stay as they are.
C37_MarkCompleteFrame ==
  [][folder # <<>> =>
       IF last_id' \in PendingIds(folder, markdownFiles)
       THEN /\ getAllTasks(folder', markdownFiles)
                 = Without(getAllTasks(folder, markdownFiles), last_id')
            /\ countRemaining(folder', markdownFiles)
                 = countRemaining(folder, markdownFiles) - 1
            /\ countCompleted(folder', markdownFiles)
                 = countCompleted(folder, markdownFiles) + 1
            /\ OtherLinesKept(folder, folder', last_id')
       ELSE /\ getAllTasks(folder', markdownFiles) = getAllTasks(folder, markdownFiles)
            /\ countRemaining(folder', markdownFiles) = countRemaining(folder, markdownFiles)
            /\ countCompleted(folder', markdownFiles) = countCompleted(folder, markdownFiles)
  ]_vars

\* the first half alone: the id of a listed task
C37_PendingTaskFrame ==
  [][(folder # <<>> /\ last_id' \in PendingIds(folder, markdownFiles)) =>
       /\ getAllTasks(folder', markdownFiles)
            = Without(getAllTasks(folder, markdownFiles), last_id')
       /\ countRemaining(folder', markdownFiles)
            = countRemaining(folder, markdownFiles) - 1
       /\ countCompleted(folder', markdownFiles)
            = countCompleted(folder, markdownFiles) + 1
       /\ OtherLinesKept(folder, folder', last_id')
  ]_vars

\* ---- C34
\* C34: when the scheduler launches a batch, every worktree of the slots of
\* the batches before has been released, so at no time of a parallel run
\* are more than MAX_PARALLEL worktree directories registered.
C34_WorktreesReleasedBeforeNextBatch ==
  /\ pc = "launch" => \A n \in worktrees : n > batch_start
  /\ PARALLEL => Cardinality(worktrees) <= MAX_PARALLEL

\* the same for a git whose worktree add leaves stdout empty
C34_ReleasedWhenDirectoryFound ==
  ~gitAddPrints => C34_WorktreesReleasedBeforeNextBatch

\* a second batch is being launched after a first one that added a worktree
C34_SecondBatchAfterWorktree ==
  /\ pc = "launch" /\ batch_num = 2
  /\ \E n \in 1..batch_start : slot[n].added

\* ---- C35
\* C35: once every agent process of the current batch has exited, the poll
\* loop eventually exits, whatever status each agent wrote last, "setting
\* up" and "running" of an agent that died included.
C35_PollLoopEndsAfterAgents ==
  (PARALLEL /\ pc = "poll" /\ BatchProcessesEnded) ~> (pc # "poll")

\* what holds with a delay that sleep accepts
C35_PollLoopEndsWithNumericDelay ==
  (RETRY_DELAY = "number" /\ PARALLEL /\ pc = "poll" /\ BatchProcessesEnded)
    ~> (pc # "poll")

\* the poll loop with an agent that ended while its marker says running
C35_DeadAgentMarkedRunning ==
  /\ pc = "poll"
  /\ BatchProcessesEnded
  /\ \E n \in BatchSlots : slot[n].status = "running"

\* ---- C38
\* the non-blank lines of the whole output
LinesOfStdout == SelectSeq(SplitLines(decode_chars(stdout)), NonBlank)

\* C38: execCommandStreaming hands to onLine the non-blank lines of the
\* child's complete stdout, each once and in order, a last line without a
\* newline included, however the bytes come in chunks.
C38_DeliversLinesOfStdout ==
  /\ IsPrefix(delivered, LinesOfStdout)
  /\ eof => delivered = LinesOfStdout

\* an output of two lines, the last without newline, read in chunks one of
\* which ended inside a line
C38_SplitLineDelivered ==
  /\ eof /\ midline
  /\ Len(delivered) = 2
  /\ stdout[Len(stdout)] # "\n"

\* ---- C39
IsSuffix(p, t) == Len(p) <= Len(t) /\ SubSeq(t, Len(t) - Len(p) + 1, Len(t)) = p

\* C39: create_task_branch pops a stash entry only when its own stash push
\* saved something, so every entry that was on the stash stack before the
\* call is still on it after the call, a call on a clean working tree
\* included.
C39_OnlyOwnStashPopped ==
  task_branches # <<>> =>
    /\ popped # "" => pushed
    /\ IsSuffix(stash_before, stash_list)

\* a call that did save something leaves the older entries alone
C39_OlderEntriesKeptWhenPushed ==
  (task_branches # <<>> /\ pushed) => IsSuffix(stash_before, stash_list)

\* a call on a clean tree with an entry on the stack
C39_CalledOnCleanTreeWithStash ==
  task_branches # <<>> /\ ~pushed /\ stash_before # <<>>

Next ==
  \/ SeqBegin
  \/ SeqAttempt
  \/ SeqNoAttempt
  \/ ParStart
  \/ BatchBegin
  \/ Launch
  \/ Poll
  \/ Wait
  \/ Result
  \/ BatchEnd
  \/ ParFinish
  \/ \E n \in 1..MaxTasks : Agent(n)

Spec == Init /\ [][Next]_vars

\* the main shell and every agent subshell take their next step as long as
\* they have one: processes of the operating system, every invocation returns
MainStep ==
  \/ SeqBegin
  \/ SeqAttempt
  \/ SeqNoAttempt
  \/ ParStart
  \/ BatchBegin
  \/ Launch
  \/ Poll
  \/ Wait
  \/ Result
  \/ BatchEnd
  \/ ParFinish

FairSpec ==
  /\ Spec
  /\ WF_vars(MainStep)
  /\ \A n \in 1..MaxTasks : WF_vars(Agent(n))

\* a run that a signal may end at any point
NextInterrupt ==
  \/ Next
  \/ Interrupt
  \/ \E n \in 1..MaxTasks : OrphanCreate(n)

SpecInterrupt == Init /\ [][NextInterrupt]_vars

\* a run in which --dry-run may be given
SpecDryRun == InitDryRun /\ [][Next]_vars

\* create_agent_worktree called twice for one slot
NextCreate ==
  \/ CreateStart
  \/ CreateCall

SpecCreate == Init /\ [][NextCreate]_vars

\* a run whose --retry-delay may be any word
SpecDelay == InitDelay /\ [][Next]_vars

\* the output parser and the step detector on one raw output
NextParse ==
  \/ ParseStreamJson
  \/ ParseAiResult
  \/ CheckForErrorsTs
  \/ CheckForErrorsSh
  \/ DetectStep
  \/ MonitorProgress

SpecParse == InitParse /\ [][NextParse]_vars

\* the bookkeeping after one batch
NextTotals ==
  \/ \E k \in 1..MaxParallelBound : AgentWrite(k)
  \/ CollectResults

SpecTotals == InitTotals /\ [][NextTotals]_vars


\* slugify on one title, then on its own output
NextSlug ==
  \/ Slugify
  \/ Reslugify

SpecSlug == InitSlug /\ [][NextSlug]_vars


\* markComplete on a task source, any number of times
NextSources ==
  \/ MarkCompleteFolder
  \/ MarkCompleteSh

SpecSources == InitSources /\ [][NextSources]_vars


\* a parallel run on a markdown source, with a bash that does not apply
\* errexit to (( )) and a git that leaves stdout empty; --retry-delay may
\* be any word
InitPoll ==
  /\ errexitCompound = FALSE /\ gitAddPrints = FALSE /\ PARALLEL = TRUE
  /\ MAX_PARALLEL \in 1..MaxParallelBound
  /\ MAX_RETRIES \in 0..MaxRetriesBound
  /\ MAX_ITERATIONS = 0 /\ PRD_SOURCE = "markdown" /\ stale = {}
  /\ prd \in Prds
  /\ DRY_RUN = FALSE /\ RETRY_DELAY \in {"number", "text"}
  /\ Fresh /\ ParserIdle /\ AtRest

\* the steps of run_parallel_tasks
ParStep ==
  \/ ParStart
  \/ BatchBegin
  \/ Launch
  \/ Poll
  \/ Wait
  \/ Result
  \/ BatchEnd
  \/ ParFinish

NextPoll ==
  \/ ParStep
  \/ \E n \in 1..MaxTasks : Agent(n)

\* the shell and every agent process take their next step as long as they
\* have one: each is a process of its own that the system keeps scheduling
SpecPoll ==
  /\ InitPoll
  /\ [][NextPoll]_vars
  /\ WF_vars(ParStep)
  /\ \A n \in 1..MaxTasks : WF_vars(Agent(n))


\* the read loop of execCommandStreaming on one child
NextStream ==
  \/ ReadChunk
  \/ ReadDone

SpecStream == InitStream /\ [][NextStream]_vars


\* create_task_branch for one task after the other
NextBranch ==
  \/ CreateTaskBranch
  \/ EditTree

SpecBranch == InitBranch /\ [][NextBranch]_vars

====
